---- MODULE Spec2Model ----
(***************************************************************************)
(* The agent loop of src/agent/orchestrator.py (Orchestrator) together     *)
(* with the session manager of src/agent/session.py, as driven by the REPL *)
(* of src/agent/cli.py.                                                    *)
(*                                                                         *)
(* A call is modelled as able to raise where the source provides for it    *)
(* (it stands inside a try whose except clause handles the failure) or     *)
(* where the failure follows from the Python semantics of the code itself  *)
(* (json.loads of a malformed string, .get on a value that is not a dict,  *)
(* ** expansion of arguments the handler does not accept).  The console    *)
(* helpers of theme.py are taken as total on the texts they are given.     *)
(*                                                                         *)
(* The parts the loop uses are modelled beside it, each with its own       *)
(* specification over the same variables:                                  *)
(*   SpecSettings   the slash commands of src/agent/settings.py and the    *)
(*                  tool list _get_filtered_tools builds from the settings *)
(*   SpecStore      the indexing methods of src/agent/memory/store.py      *)
(*   SpecRetriever  _apply_token_budget and format_for_prompt of           *)
(*                  src/agent/memory/retriever.py                          *)
(*   SpecExecutor   PythonExecutor.execute of                              *)
(*                  src/agent/sandbox/python_executor.py                   *)
(*   SpecTools      the tools that reach the warehouse                     *)
(*                  (src/agent/tools/) and _handle_tool_calls on their     *)
(*                  arguments                                              *)
(*   SpecSessions   SessionManager of src/agent/session.py with the files  *)
(*                  it saves and loads                                     *)
(*   SpecContext    tool_update_context and tool_read_context of           *)
(*                  src/agent/tools/internal/context_tools.py over the     *)
(*                  lines of the context file                              *)
(*   SpecModes      the agent loop with /output typed between questions    *)
(*   SpecLive       the agent loop under weak fairness of the model call   *)
(*                  and of the dispatch of a tool call                     *)
(*   SpecCommands   /model, /session new, /session save and /session load  *)
(*                  at the prompt                                          *)
(*   SpecTokens     the model calls with and without a usage report, and   *)
(*                  the session commands between them                      *)
(* The agent loop sees the memory store through the item counts of         *)
(* get_stats (variable memory); SpecStore follows the items themselves     *)
(* (variable collections).  Texts are modelled by their lengths where only *)
(* the length is read (the token budget), and by their value where the     *)
(* value is read (ids, tool names, variable names).                        *)
(***************************************************************************)
EXTENDS Integers, Sequences, FiniteSets, TLC

(* ------------------------------ bounds -------------------------------- *)
\* index calls on the memory store in one run
MaxIndexCalls == 3
\* items of one collection in a retrieval result
MaxItems == 2
\* tool calls in one model response
MaxBatch == 2
\* tool-call ids the model issues in one run
MaxToolCalls == 2
\* questions typed at the prompt in one run
MaxQuestions == 1
\* sessions started after the first one (/session new)
MaxSessions == 1
\* /session save commands in one run
MaxSaves == 2
\* /session save commands in a run in which questions are asked too
MaxLoopSaves == 1
\* messages added to a session's history through the session manager
MaxMessages == 1
\* tokens counted for a session through the session manager
MaxTokens == 2
\* section headers in the context file beyond which it is not updated again
MaxSectionLines == 5

(* ------------------------------ inputs -------------------------------- *)
\* the questions a user types, in the order typed: "q1" first, then "q2"s
Questions == {"q1", "q2"}
\* the names given to /session save, as sequences of characters (<<>> is
\* no name)
SaveNames == {<<>>, <<"a">>}
\* the tool names the model requests; "no_such_tool" is not registered
RequestedTools ==
  {"run_sql", "send_message", "submit_result", "submit_observation",
   "no_such_tool"}
\* the text of a response without tool calls ("" is content None)
TextContents == {"", "reasoning"}
\* what the argument string of a tool call is:
\*   ok          a JSON object the handler accepts
\*   bad_json    not JSON at all
\*   not_object  JSON, but not an object (a list, a string, null)
\*   bad_args    a JSON object the handler rejects (missing or extra key)
ArgShapes == {"ok", "bad_json", "not_object", "bad_args"}
\* what a collaborator called inside a try block does
EnvOutcomes == {"ok", "raised"}

(* ------------------------- Orchestrator tables ------------------------ *)
TOOL_HANDLERS ==
  {"run_sql", "run_python", "inspect_schema", "inspect_platform",
   "read_context", "update_context", "submit_result", "submit_observation",
   "send_message"}

TerminalTools == {"submit_result", "submit_observation"}

(* ------------------------------ messages ------------------------------ *)
UserMsg(q) ==
  [role |-> "user", content |-> q, tool_calls |-> <<>>, tool_call_id |-> 0]

AssistantMsg(content, tcs) ==
  [role |-> "assistant", content |-> content, tool_calls |-> tcs,
   tool_call_id |-> 0]

ToolMsg(id, content) ==
  [role |-> "tool", content |-> content, tool_calls |-> <<>>,
   tool_call_id |-> id]

UnknownToolText == "Unknown tool: no_such_tool"
ResultDisplayedText == "Result displayed to user."
ObservationDisplayedText == "Observation displayed to user."
MessageSentText == "Message sent."
InternalResultText == "tool output"
\* f"Error: {type(e).__name__}: {str(e)}"
ErrorKinds == {"TypeError", "UnboundLocalError", "HandlerError", "DisplayError"}

ErrorText(kind) ==
  CASE kind = "TypeError" -> "Error: TypeError: bad arguments"
    [] kind = "UnboundLocalError" -> "Error: UnboundLocalError: output"
    [] kind = "HandlerError" -> "Error: Exception: handler failed"
    [] OTHER -> "Error: Exception: display failed"

ErrorTexts == {ErrorText(k) : k \in ErrorKinds}

(* ------------------------------ sessions ------------------------------ *)
AVAILABLE_MODELS ==
  {"gpt-4o", "gpt-4o-mini", "gpt-4-turbo", "gpt-4", "gpt-3.5-turbo", "o1",
   "o1-mini", "o1-preview"}

DEFAULT_MODEL == "gpt-4o"

MODEL_CONTEXT_LIMITS ==
  [m \in AVAILABLE_MODELS |->
     CASE m = "gpt-4" -> 8192
       [] m = "gpt-3.5-turbo" -> 16385
       [] m = "o1" -> 200000
       [] OTHER -> 128000]

\* TokenUsage()
NoTokens == [prompt_tokens |-> 0, completion_tokens |-> 0, total_tokens |-> 0]

\* Session(...) as start_session builds it; the id is the number of the
\* session (IdText gives its text), the name a sequence of characters
NewSession(id, model, at) ==
  [id |-> id, name |-> <<>>, model |-> model, created_at |-> at,
   status |-> "active", token_usage |-> NoTokens,
   context_limit |-> MODEL_CONTEXT_LIMITS[model],
   conversation_history |-> <<>>, message_count |-> 0]

VARIABLES
  current_session,   \* SessionManager.current_session: <<>> is None, <<s>> a Session
  sessions_dir,      \* the files of SESSIONS_DIR: records [stem, mtime, data]
  fs_clock,          \* the modification time the next write gets
  cmd,               \* the latest call on the session manager
  next_session_id,   \* the next fresh session id
  saves,             \* /session save commands so far
  pc,                \* where the REPL is: idle, awaiting_model, dispatching, done, raised
  current_question,  \* Orchestrator._current_question
  questions,         \* questions asked so far
  round,             \* model calls made for the current question
  response,          \* the latest model response of the current question: <<>> before the first
  sent,              \* the message list of the latest model call (without the system prompt)
  batch,             \* assistant_message.tool_calls of the batch being dispatched
  idx,               \* position of the for loop in batch
  output,            \* the local variable output of _handle_tool_calls: <<>> is unbound
  next_call_id,      \* the next fresh tool-call id
  displayed,         \* what the console showed for the current question
  memory,            \* item counts of the memory store's collections
  last,              \* the latest dispatch: which call, how far it got
  rag,               \* the retrieval of the latest model call of the question
  settings,          \* AgentSettings: model, output_mode, rag_verbose, verbose
  tools,             \* what _get_filtered_tools returned last: <<>> before the first
  collections,       \* MemoryStore.collections: the items of each collection
  now,               \* the latest reading of datetime.now()
  indexed,           \* index calls made, and _add_item calls done per collection
  retrieved,         \* a RetrievalResult: the items found in each collection
  budget,            \* the budget argument of _apply_token_budget
  filtered,          \* what _apply_token_budget returned: <<>> before the call
  formatted,         \* what format_for_prompt built: <<>> before the call
  code,              \* the code argument of PythonExecutor.execute
  dataframes,        \* the names of the dataframes argument
  executed,          \* what execute did: <<>> before the call
  warehouse,         \* the warehouse file: the rows of its table, or overwritten
  call,              \* the latest tool call: <<>> before the first
  returned,          \* what the latest tool call returned: <<>> before the first
  notes              \* the lines of the context file

vars ==
  <<current_session, sessions_dir, fs_clock, cmd, next_session_id, saves, pc,
    current_question, questions, round, response, sent, batch, idx, output,
    next_call_id, displayed, memory, last, rag, settings, tools,
    collections, now, indexed, retrieved, budget, filtered, formatted, code,
    dataframes, executed, warehouse, call, returned,
    notes>>

\* the warehouse, the context file and the latest tool call
toolVars == <<warehouse, call, returned, notes>>

\* the state of the parts the agent loop does not touch
libraryVars ==
  <<settings, tools, collections, now, indexed, retrieved, budget, filtered,
    formatted,
    code, dataframes, executed, toolVars>>

sessionVars ==
  <<current_session, sessions_dir, fs_clock, cmd, next_session_id, saves>>

\* before the first call on the session manager: the operation, the
\* identifier or name given, and the session a save has just written
NoCmd == [op |-> "none", ident |-> <<>>, snapshot |-> <<>>]

NoDispatch ==
  [call |-> 0, name |-> "", failed_at |-> "none", ret |-> "none",
   indexing |-> "none"]

\* SessionManager.get_history
get_history(cs) ==
  IF cs # <<>> THEN cs[1].conversation_history ELSE <<>>

\* self.conversation_history.append(msg): the list get_history returns is
\* the session's own list, or a fresh empty list when there is no session
HistoryAppend(cs, msg) ==
  IF cs # <<>>
    THEN <<[cs[1] EXCEPT !.conversation_history = Append(@, msg)]>>
    ELSE cs

\* Orchestrator._add_tool_result
add_tool_result(cs, id, result) ==
  HistoryAppend(cs, ToolMsg(id, result))

\* before the first model call of a question
NoRetrieval ==
  [made |-> FALSE, failed |-> "none", embedded |-> FALSE, searched |-> FALSE,
   items |-> 0, context |-> FALSE]

\* the REPL after start_repl has built the session manager and the
\* orchestrator, and before the first line is read
OrchestratorInit ==
  /\ current_session = <<NewSession(1, DEFAULT_MODEL, 1)>>
  /\ sessions_dir = {}
  /\ fs_clock = 1
  /\ cmd = NoCmd
  /\ next_session_id = 2
  /\ saves = 0
  /\ pc = "idle"
  /\ current_question = ""
  /\ questions = 0
  /\ round = 0
  /\ response = <<>>
  /\ sent = <<>>
  /\ batch = <<>>
  /\ idx = 1
  /\ output = <<>>
  /\ next_call_id = 1
  /\ displayed = <<>>
  /\ memory = [schema |-> 0, queries |-> 0, observations |-> 0]
  /\ last = NoDispatch
  /\ rag = NoRetrieval

AtPrompt == pc \in {"idle", "done", "raised"}

(* ------------------------------ _call_llm ----------------------------- *)
\* AgentSettings.get_allowed_output_tools
get_allowed_output_tools(st) ==
  CASE st.output_mode = "auto" -> {"submit_result", "submit_observation"}
    [] st.output_mode = "observation" -> {"submit_observation"}
    [] st.output_mode = "query" -> {"submit_result"}
    [] OTHER -> {}

\* the names of Orchestrator.TOOLS, in the order of the list
TOOLS ==
  <<"run_sql", "run_python", "inspect_schema", "inspect_platform",
    "read_context", "update_context", "submit_result", "submit_observation",
    "send_message">>

\* the test of the filter loop with the mode left out: every tool passes
KeepsToolAnyMode(name, allowed) == TRUE

\* the test of the filter loop: a tool is kept when it is not an output
\* tool, or when the mode allows it
KeepsTool(name, allowed) ==
  name \notin {"submit_result", "submit_observation"} \/ name \in allowed

\* Orchestrator._get_filtered_tools
FilteredTools(st) ==
  LET allowed == get_allowed_output_tools(st)
      Keep(name) == KeepsTool(name, allowed)
  IN SelectSeq(TOOLS, Keep)

\* TokenUsage.update with the total taken from the prompt count alone
TokenUpdatePromptOnly(tu, prompt, completion) ==
  [prompt_tokens |-> tu.prompt_tokens + prompt,
   completion_tokens |-> tu.completion_tokens + completion,
   total_tokens |-> tu.total_tokens + prompt]

\* TokenUsage.update
TokenUpdate(tu, prompt, completion) ==
  [prompt_tokens |-> tu.prompt_tokens + prompt,
   completion_tokens |-> tu.completion_tokens + completion,
   total_tokens |-> tu.total_tokens + prompt + completion]

\* response.usage as the API reports it on a completed call
ReportedUsages == {<<[prompt_tokens |-> 2, completion_tokens |-> 1]>>}

\* response.usage: None, or the counts the API reports
Usages == {<<>>} \cup ReportedUsages

\* if response.usage: self.session_manager.update_tokens(...), which does
\* nothing without a current session
TrackUsage(cs, usage) ==
  IF usage # <<>> /\ cs # <<>>
    THEN <<[cs[1] EXCEPT !.token_usage =
              TokenUpdate(@, usage[1].prompt_tokens,
                          usage[1].completion_tokens)]>>
    ELSE cs

\* tools = self._get_filtered_tools()
ToolsOfCall(st) == <<[mode |-> st.output_mode, names |-> FilteredTools(st)]>>

\* the state of the parts a model call reads but does not change
callFrame ==
  <<settings, collections, now, indexed, retrieved, budget, filtered,
    formatted, code, dataframes, executed, toolVars>>

\* limits of search_all as retrieve_with_scores passes them
SearchLimits == [schema |-> 5, queries |-> 5, observations |-> 3]

Min(a, b) == IF a <= b THEN a ELSE b

\* sum(stats.values())
StatsSum(m) == m.schema + m.queries + m.observations

\* MemoryStore.search: n_results=min(n_results, coll.count()), nothing and
\* no embedding for an empty collection
SearchCount(m, c) == Min(SearchLimits[c], m[c])

\* the faults that have a place to happen: with an empty store the first
\* thing that can fail is the store (the retriever is built on it), with
\* items in it the embedder, which the first search calls
RetrievalOutcomes(m) ==
  IF StatsSum(m) = 0 THEN {"none", "store"} ELSE {"none", "embedder"}

\* retrieve_with_scores without the test on the stats: every collection is
\* searched, whatever it holds
retrieve_with_scoresAlwaysSearches(m, r) ==
  IF r = "store"
    THEN [NoRetrieval EXCEPT !.made = TRUE, !.failed = "store"]
  ELSE IF r = "embedder"
    THEN [NoRetrieval EXCEPT !.made = TRUE, !.failed = "embedder",
                             !.embedded = TRUE]
  ELSE [NoRetrieval EXCEPT !.made = TRUE, !.embedded = TRUE, !.searched = TRUE,
          !.items = SearchCount(m, "schema") + SearchCount(m, "queries")
                      + SearchCount(m, "observations")]

\* ContextRetriever.retrieve_with_scores under fault r: the store fails in
\* get_stats, the embedder in the first search of a collection with items
retrieve_with_scores(m, r) ==
  IF r = "store"
    THEN [NoRetrieval EXCEPT !.made = TRUE, !.failed = "store"]
  ELSE IF StatsSum(m) = 0
    THEN [NoRetrieval EXCEPT !.made = TRUE]
  ELSE IF r = "embedder"
    THEN [NoRetrieval EXCEPT !.made = TRUE, !.failed = "embedder",
                             !.embedded = TRUE]
  ELSE [NoRetrieval EXCEPT !.made = TRUE, !.embedded = TRUE, !.searched = TRUE,
          !.items = SearchCount(m, "schema") + SearchCount(m, "queries")
                      + SearchCount(m, "observations")]

\* the retrieval block with the context assigned before the call that
\* can raise: a failed retrieval leaves a context in the prompt
RagContextBeforeFailure(q, m, r) ==
  IF q = "" THEN NoRetrieval
  ELSE LET result == retrieve_with_scores(m, r) IN
         [result EXCEPT !.context = (result.failed # "none" \/ result.items > 0)]

\* the retrieval block of _call_llm: the prompt gets the "Retrieved
\* Context" section when the retrieval returned and found items; an
\* exception leaves the prompt as it was
RagContext(q, m, r) ==
  IF q = "" THEN NoRetrieval
  ELSE LET result == retrieve_with_scores(m, r) IN
         [result EXCEPT !.context = (result.failed = "none" /\ result.items > 0)]

(* --------------------------- process_question ------------------------- *)
\* process_question up to the first model call: the question is remembered
\* and appended to the list get_history returns
process_question(q) ==
  /\ AtPrompt
  /\ questions < MaxQuestions
  /\ q = (IF questions = 0 THEN "q1" ELSE "q2")
  /\ questions' = questions + 1
  /\ current_question' = q
  /\ current_session' = HistoryAppend(current_session, UserMsg(q))
  /\ pc' = "awaiting_model"
  /\ round' = 0
  /\ response' = <<>>
  /\ sent' = <<>>
  /\ batch' = <<>>
  /\ idx' = 1
  /\ output' = <<>>
  /\ displayed' = <<>>
  /\ last' = NoDispatch
  /\ rag' = NoRetrieval
  /\ UNCHANGED <<sessions_dir, fs_clock, cmd, next_session_id, saves,
                 next_call_id, memory>>
  /\ UNCHANGED libraryVars

\* what the console shows for a response without tool calls
ThinkingEvent(content) ==
  [kind |-> "thinking", call |-> 0, delivered |-> TRUE, output |-> <<>>]

TextDisplay(log, content) ==
  IF content # "" THEN Append(log, ThinkingEvent(content)) ELSE log

\* the text is printed, the history is left as it was
TextHistoryNotAppended(cs, content) ==
  cs

\* the history after a response without tool calls
TextHistory(cs, content) ==
  HistoryAppend(cs, AssistantMsg(content, <<>>))

\* _call_llm, the model answers with text only: the else branch of the loop
CallLLMText(content, r, usage) ==
  /\ pc = "awaiting_model"
  /\ r \in RetrievalOutcomes(memory)
  /\ rag' = RagContext(current_question, memory, r)
  /\ sent' = get_history(current_session)
  /\ tools' = ToolsOfCall(settings)
  /\ round' = round + 1
  /\ response' = <<[content |-> content, tool_calls |-> <<>>,
                    usage |-> usage]>>
  /\ displayed' = TextDisplay(displayed, content)
  /\ current_session' =
       TextHistory(TrackUsage(current_session, usage), content)
  /\ pc' = "done"
  /\ UNCHANGED <<sessions_dir, fs_clock, cmd, next_session_id, saves,
                 current_question, questions, batch, idx, output,
                 next_call_id, memory, last>>
  /\ UNCHANGED callFrame

\* the tool_calls list of a response: fresh ids, the names the model chose
ToolCalls(first, names) ==
  [i \in 1..Len(names) |-> [id |-> first + i - 1, name |-> names[i]]]

\* the assistant message _handle_tool_calls appends before the for loop
ToolCallsHistory(cs, tcs) ==
  HistoryAppend(cs, AssistantMsg("", tcs))

\* _call_llm, the model answers with tool calls: _handle_tool_calls starts
CallLLMTools(names, r, usage) ==
  /\ pc = "awaiting_model"
  /\ r \in RetrievalOutcomes(memory)
  /\ rag' = RagContext(current_question, memory, r)
  /\ Len(names) >= 1
  /\ next_call_id + Len(names) - 1 <= MaxToolCalls
  /\ sent' = get_history(current_session)
  /\ tools' = ToolsOfCall(settings)
  /\ round' = round + 1
  /\ LET tcs == ToolCalls(next_call_id, names) IN
       /\ response' = <<[content |-> "", tool_calls |-> tcs,
                         usage |-> usage]>>
       /\ current_session' =
            ToolCallsHistory(TrackUsage(current_session, usage), tcs)
       /\ batch' = tcs
  /\ idx' = 1
  /\ output' = <<>>
  /\ next_call_id' = next_call_id + Len(names)
  /\ pc' = "dispatching"
  /\ UNCHANGED <<sessions_dir, fs_clock, cmd, next_session_id, saves,
                 current_question, questions, displayed, memory, last>>
  /\ UNCHANGED callFrame

(* --------------------------- _handle_tool_calls ----------------------- *)
\* json.loads(tool_call.function.arguments)
ParseRaises(a) == a = "bad_json"

\* the tools whose summary reads the arguments with args.get
SummarizeGets == TOOL_HANDLERS \ {"read_context"}

\* _summarize_args(tool_name, tool_args)
SummarizeRaises(name, a) == a = "not_object" /\ name \in SummarizeGets

\* handler(**tool_args)
HandlerRejects(name, a) == a \in {"not_object", "bad_args"}

\* return True inside the for loop: back to the model after the first call
NextPcReturnsEarly(i, b) == "awaiting_model"

\* the for loop goes on: the next call, or return True after the last one
NextPc(i, b) == IF i + 1 > Len(b) THEN "awaiting_model" ELSE "dispatching"

\* return True in the terminal branches: the loop goes on
TerminalPcContinues(i, b) ==
  IF i + 1 > Len(b) THEN "awaiting_model" ELSE "dispatching"

\* return False of the two terminal branches, as process_question sees it
TerminalPc(i, b) == "done"

Dispatching == pc = "dispatching" /\ idx <= Len(batch)

\* parsing or summarising the arguments raises: nothing catches it
DispatchRaises(a) ==
  /\ Dispatching
  /\ LET tc == batch[idx] IN
       /\ ParseRaises(a) \/ SummarizeRaises(tc.name, a)
       /\ last' = [call |-> tc.id, name |-> tc.name,
                   failed_at |-> IF ParseRaises(a) THEN "parse" ELSE "summarize",
                   ret |-> "none", indexing |-> "none"]
  /\ pc' = "raised"
  /\ UNCHANGED <<sessionVars, current_question, questions, round, response,
                 sent, batch, idx, output, next_call_id, displayed, memory, rag>>
  /\ UNCHANGED libraryVars

\* no handler for the name
DispatchUnknown(a) ==
  /\ Dispatching
  /\ LET tc == batch[idx] IN
       /\ ~ParseRaises(a) /\ ~SummarizeRaises(tc.name, a)
       /\ tc.name \notin TOOL_HANDLERS
       /\ current_session' = add_tool_result(current_session, tc.id, UnknownToolText)
       /\ last' = [call |-> tc.id, name |-> tc.name, failed_at |-> "none",
                   ret |-> "none", indexing |-> "none"]
  /\ pc' = NextPc(idx, batch)
  /\ idx' = idx + 1
  /\ UNCHANGED <<sessions_dir, fs_clock, cmd, next_session_id, saves,
                 current_question, questions, round, response, sent, batch, output,
                 next_call_id, displayed, memory, rag>>
  /\ UNCHANGED libraryVars

\* the except clause of the loop body
DispatchCaught(tc, kind, stage, ret) ==
  /\ current_session' = add_tool_result(current_session, tc.id, ErrorText(kind))
  /\ last' = [call |-> tc.id, name |-> tc.name, failed_at |-> stage, ret |-> ret,
              indexing |-> "none"]
  /\ pc' = NextPc(idx, batch)
  /\ idx' = idx + 1

\* what submit_result returns:
\* success with the value the function bound to result, or a failure
SubmitResultOutput(id, h) ==
  [tool |-> "submit_result", call |-> id, success |-> (h = "success"),
   source |-> IF h = "success" THEN "executed" ELSE "none"]

\* what submit_observation returns: the observation text of the arguments
SubmitObservationOutput(id) ==
  [tool |-> "submit_observation", call |-> id, success |-> TRUE,
   source |-> "arguments"]

\* the first spinner block runs submit_result only
RunsUnderSpinnerResultOnly(name) == name = "submit_result"

\* the tools whose handler the first spinner block runs
RunsUnderSpinner(name) == name \in {"submit_result", "submit_observation"}

\* the local variable output after the spinner block: assigned for the tools
\* the block runs, left as it was (unbound, or a previous call's) otherwise
OutputAfterSpinner(name, out, prev) ==
  IF RunsUnderSpinner(name) THEN <<out>> ELSE prev

\* display_submit_result(output) / display_observation(output)
AnswerEvent(kind, id, out, d) ==
  [kind |-> kind, call |-> id, delivered |-> (d = "ok"), output |-> out]

\* the attributes of the SubmitResultOutput dataclass
SubmitResultOutputFields ==
  {"success", "result", "inputs_used", "function_code", "explanation", "error"}

\* the attribute the indexing block of the submit_result branch reads first
QueryAttribute == "sql_queries"

\* how the indexing block of the submit_result branch ends, with a working
\* store: not entered ("none"), or the query indexed ("ok"), or an
\* exception swallowed by its except clause ("raised"), which is what
\* reading an attribute the output does not have comes to
QueryIndexing(out, q) ==
  IF ~(out.success /\ q # "") THEN "none"
  ELSE IF QueryAttribute \in SubmitResultOutputFields THEN "ok"
  ELSE "raised"

\* the memory after the indexing block of the submit_result branch
IndexSuccessfulQuery(m, out, q) ==
  IF QueryIndexing(out, q) = "ok" THEN [m EXCEPT !.queries = @ + 1] ELSE m

\* submit_result: h is what the handler does, d what the display does
DispatchSubmitResult(a, h, d) ==
  /\ Dispatching
  /\ LET tc == batch[idx]
         out == OutputAfterSpinner(tc.name, SubmitResultOutput(tc.id, h), output)
         ret == IF out # <<>> /\ out[1].success THEN "success" ELSE "failure"
     IN
       /\ ~ParseRaises(a) /\ ~SummarizeRaises(tc.name, a)
       /\ tc.name = "submit_result"
       /\ (h = "raised") <=> HandlerRejects(tc.name, a)
       /\ IF RunsUnderSpinner(tc.name) /\ h = "raised"
            THEN /\ DispatchCaught(tc, "TypeError", "handler", "none")
                 /\ d = "ok"
                 /\ UNCHANGED <<output, displayed, memory>>
            ELSE IF out = <<>>
            THEN /\ DispatchCaught(tc, "UnboundLocalError", "display", "none")
                 /\ d = "ok"
                 /\ UNCHANGED <<output, displayed, memory>>
            ELSE /\ output' = out
                 /\ displayed' = Append(displayed,
                                   AnswerEvent("submit_result", tc.id, out, d))
                 /\ IF d = "raised"
                      THEN /\ DispatchCaught(tc, "DisplayError", "display", ret)
                           /\ UNCHANGED memory
                      ELSE /\ current_session' =
                                add_tool_result(current_session, tc.id,
                                                ResultDisplayedText)
                           /\ memory' = IndexSuccessfulQuery(memory, out[1],
                                                             current_question)
                           /\ last' = [call |-> tc.id, name |-> tc.name,
                                       failed_at |-> "none", ret |-> ret,
                                       indexing |->
                                         QueryIndexing(out[1], current_question)]
                           /\ pc' = TerminalPc(idx, batch)
                           /\ idx' = idx
  /\ UNCHANGED <<sessions_dir, fs_clock, cmd, next_session_id, saves,
                 current_question, questions, round, response, sent, batch,
                 next_call_id, rag>>
  /\ UNCHANGED libraryVars

\* self.retriever.index_observation inside try/except: ix is what it does
IndexObservation(m, ix) ==
  IF ix = "ok" THEN [m EXCEPT !.observations = @ + 1] ELSE m

\* submit_observation: d is what the display does, ix what indexing does
DispatchSubmitObservation(a, d, ix) ==
  /\ Dispatching
  /\ LET tc == batch[idx]
         out == OutputAfterSpinner(tc.name, SubmitObservationOutput(tc.id), output)
         ret == IF out # <<>> /\ out[1].success THEN "success" ELSE "failure"
     IN
       /\ ~ParseRaises(a) /\ ~SummarizeRaises(tc.name, a)
       /\ tc.name = "submit_observation"
       /\ IF RunsUnderSpinner(tc.name) /\ HandlerRejects(tc.name, a)
            THEN /\ DispatchCaught(tc, "TypeError", "handler", "none")
                 /\ d = "ok" /\ ix = "ok"
                 /\ UNCHANGED <<output, displayed, memory>>
            ELSE IF out = <<>>
            THEN /\ DispatchCaught(tc, "UnboundLocalError", "display", "none")
                 /\ d = "ok" /\ ix = "ok"
                 /\ UNCHANGED <<output, displayed, memory>>
            ELSE /\ output' = out
                 /\ displayed' = Append(displayed,
                                   AnswerEvent("submit_observation", tc.id, out, d))
                 /\ IF d = "raised"
                      THEN /\ DispatchCaught(tc, "DisplayError", "display", ret)
                           /\ ix = "ok"
                           /\ UNCHANGED memory
                      ELSE /\ current_session' =
                                add_tool_result(current_session, tc.id,
                                                ObservationDisplayedText)
                           /\ memory' = IndexObservation(memory, ix)
                           /\ last' = [call |-> tc.id, name |-> tc.name,
                                       failed_at |-> "none", ret |-> ret,
                                       indexing |-> ix]
                           /\ pc' = TerminalPc(idx, batch)
                           /\ idx' = idx
  /\ UNCHANGED <<sessions_dir, fs_clock, cmd, next_session_id, saves,
                 current_question, questions, round, response, sent, batch,
                 next_call_id, rag>>
  /\ UNCHANGED libraryVars

\* send_message: display and continue
DispatchSendMessage(a) ==
  /\ Dispatching
  /\ LET tc == batch[idx] IN
       /\ ~ParseRaises(a) /\ ~SummarizeRaises(tc.name, a)
       /\ tc.name = "send_message"
       /\ IF HandlerRejects(tc.name, a)
            THEN DispatchCaught(tc, "TypeError", "handler", "none")
            ELSE /\ current_session' =
                      add_tool_result(current_session, tc.id, MessageSentText)
                 /\ last' = [call |-> tc.id, name |-> tc.name,
                             failed_at |-> "none", ret |-> "none",
                             indexing |-> "none"]
                 /\ pc' = NextPc(idx, batch)
                 /\ idx' = idx + 1
  /\ UNCHANGED <<sessions_dir, fs_clock, cmd, next_session_id, saves,
                 current_question, questions, round, response, sent, batch, output,
                 next_call_id, displayed, memory, rag>>
  /\ UNCHANGED libraryVars

\* an internal tool: h is what the handler and the preview do
DispatchInternal(a, h) ==
  /\ Dispatching
  /\ LET tc == batch[idx] IN
       /\ ~ParseRaises(a) /\ ~SummarizeRaises(tc.name, a)
       /\ tc.name \in TOOL_HANDLERS \ (TerminalTools \cup {"send_message"})
       /\ HandlerRejects(tc.name, a) => h = "raised"
       /\ IF h = "raised"
            THEN DispatchCaught(tc,
                   IF HandlerRejects(tc.name, a) THEN "TypeError" ELSE "HandlerError",
                   "handler", "none")
            ELSE /\ current_session' =
                      add_tool_result(current_session, tc.id, InternalResultText)
                 /\ last' = [call |-> tc.id, name |-> tc.name,
                             failed_at |-> "none", ret |-> "none",
                             indexing |-> "none"]
                 /\ pc' = NextPc(idx, batch)
                 /\ idx' = idx + 1
  /\ UNCHANGED <<sessions_dir, fs_clock, cmd, next_session_id, saves,
                 current_question, questions, round, response, sent, batch, output,
                 next_call_id, displayed, memory, rag>>
  /\ UNCHANGED libraryVars

(* ------------------------------ SessionManager ------------------------ *)
\* back at the prompt: the frame of the last process_question is gone
ForgetQuestion ==
  /\ pc' = "idle"
  /\ round' = 0
  /\ response' = <<>>
  /\ sent' = <<>>
  /\ batch' = <<>>
  /\ idx' = 1
  /\ output' = <<>>
  /\ displayed' = <<>>
  /\ last' = NoDispatch
  /\ rag' = NoRetrieval
  /\ UNCHANGED <<current_question, questions, next_call_id, memory>>
  /\ UNCHANGED libraryVars

SessionIds == 1..(1 + MaxSessions)

\* the readings of datetime.now() when /session new is typed: later than
\* the start of the program
CreationTimes == {2}

\* /session new: start_session replaces the current session
start_session(at) ==
  /\ AtPrompt
  /\ next_session_id \in SessionIds
  /\ current_session' = <<NewSession(next_session_id, settings.model, at)>>
  /\ next_session_id' = next_session_id + 1
  /\ cmd' = NoCmd
  /\ ForgetQuestion
  /\ UNCHANGED <<sessions_dir, fs_clock, saves>>

\* Session.clear_history
SessionCleared(s) ==
  [s EXCEPT !.conversation_history = <<>>, !.message_count = 0]

\* clear and /session clear: SessionManager.clear_history
clear_history ==
  /\ AtPrompt
  /\ current_session' =
       IF current_session # <<>> THEN <<SessionCleared(current_session[1])>>
       ELSE current_session
  /\ cmd' = NoCmd
  /\ ForgetQuestion
  /\ UNCHANGED <<sessions_dir, fs_clock, next_session_id, saves>>

\* the text of a session id: str(uuid.uuid4())[:8], eight hexadecimal
\* characters, here two; ids of different sessions can begin alike or not
IdText(id) == <<IF id % 2 = 1 THEN "a" ELSE "b", ToString(id)>>

\* c.isalnum() over the characters used in names
Alnum == {"a", "b", "1", "2", "3", "4"}

\* "".join(c if c.isalnum() or c in "-_" else "_" for c in name)
safe_name(name) ==
  [i \in 1..Len(name) |->
     IF name[i] \in Alnum \cup {"-", "_"} THEN name[i] ELSE "_"]

\* the file name without ".json": the id, or the id, "_" and the safe name
FileStem(s, name) ==
  IF name # <<>> THEN IdText(s.id) \o <<"_">> \o safe_name(name)
  ELSE IdText(s.id)

\* Session.to_dict and json.dumps: the keys written to the file
ToDict(s) ==
  [id |-> s.id, name |-> s.name, model |-> s.model,
   created_at |-> s.created_at, status |-> s.status,
   token_usage |-> s.token_usage, context_limit |-> s.context_limit,
   conversation_history |-> s.conversation_history,
   message_count |-> s.message_count]

\* from_dict that leaves the token usage to the default factory
FromDictFreshUsage(d) ==
  [id |-> d.id, name |-> d.name, model |-> d.model,
   created_at |-> d.created_at, status |-> d.status,
   token_usage |-> NoTokens, context_limit |-> d.context_limit,
   conversation_history |-> d.conversation_history,
   message_count |-> d.message_count]

\* json.loads and Session.from_dict: cls(**data)
FromDict(d) ==
  [id |-> d.id, name |-> d.name, model |-> d.model,
   created_at |-> d.created_at, status |-> d.status,
   token_usage |-> d.token_usage, context_limit |-> d.context_limit,
   conversation_history |-> d.conversation_history,
   message_count |-> d.message_count]

\* filepath.write_text(...): a file of that name is replaced
WriteFile(files, stem, mtime, data) ==
  {f \in files : f.stem # stem}
    \cup {[stem |-> stem, mtime |-> mtime, data |-> data]}

\* /session save [name]: save_session; without a session the ValueError
\* is reported and nothing changes
save_session(name) ==
  /\ AtPrompt
  /\ saves < MaxSaves
  /\ saves' = saves + 1
  /\ IF current_session = <<>>
       THEN /\ cmd' = [NoCmd EXCEPT !.op = "save", !.ident = name]
            /\ UNCHANGED <<current_session, sessions_dir, fs_clock>>
       ELSE LET s == [current_session[1] EXCEPT
                        !.name = IF name # <<>> THEN name ELSE @,
                        !.status = "paused"]
                stem == FileStem(s, name) IN
            /\ current_session' = <<s>>
            /\ sessions_dir' = WriteFile(sessions_dir, stem, fs_clock, ToDict(s))
            /\ fs_clock' = fs_clock + 1
            /\ cmd' = [op |-> "save", ident |-> name, snapshot |-> <<s>>]
  /\ ForgetQuestion
  /\ UNCHANGED next_session_id

\* the identifiers given to /session load: a session id, or a name
Identifiers == {IdText(i) : i \in SessionIds} \cup (SaveNames \ {<<>>})

\* p is the beginning of t
StartsWith(t, p) ==
  /\ Len(p) <= Len(t)
  /\ \A i \in 1..Len(p) : t[i] = p[i]

\* p occurs in t
Contains(t, p) ==
  \E k \in 0..(Len(t) - Len(p)) : \A i \in 1..Len(p) : t[k + i] = p[i]

\* SESSIONS_DIR.glob(f"{identifier}*.json")
GlobById(files, ident) == {f \in files : StartsWith(f.stem, ident)}

\* SESSIONS_DIR.glob(f"*_{identifier}*.json")
GlobByName(files, ident) ==
  {f \in files : Contains(f.stem, <<"_">> \o ident)}

\* matching_files after the two globs
MatchingFiles(files, ident) ==
  IF GlobById(files, ident) # {} THEN GlobById(files, ident)
  ELSE GlobByName(files, ident)

\* sort(key=st_mtime) without reverse, and [0]
MostRecentAscending(fs) == CHOOSE f \in fs : \A g \in fs : f.mtime <= g.mtime

\* sort(key=st_mtime, reverse=True) and [0]
MostRecent(fs) == CHOOSE f \in fs : \A g \in fs : g.mtime <= f.mtime

\* /session load <identifier>: load_session; no match is a ValueError
\* that is reported and changes nothing
load_session(ident) ==
  /\ AtPrompt
  /\ sessions_dir # {}
  /\ LET fs == MatchingFiles(sessions_dir, ident) IN
       current_session' =
         IF fs = {} THEN current_session
         ELSE <<[FromDict(MostRecent(fs).data) EXCEPT !.status = "active"]>>
  /\ cmd' = [op |-> "load", ident |-> ident,
             snapshot |-> IF cmd.op = "save" THEN cmd.snapshot ELSE <<>>]
  /\ ForgetQuestion
  /\ UNCHANGED <<sessions_dir, fs_clock, next_session_id, saves>>

\* SessionManager.end_session: the session is marked ended and detached
end_session ==
  /\ AtPrompt
  /\ current_session # <<>>
  /\ current_session' = <<>>
  /\ cmd' = NoCmd
  /\ ForgetQuestion
  /\ UNCHANGED <<sessions_dir, fs_clock, next_session_id, saves>>

\* Session.add_message
SessionAddMessage(s, msg) ==
  LET h == Append(s.conversation_history, msg) IN
  [s EXCEPT !.conversation_history = h,
            !.message_count =
               Cardinality({i \in 1..Len(h) : h[i].role = "user"})]

\* SessionManager.add_message(message)
add_message(msg) ==
  /\ AtPrompt
  /\ current_session # <<>>
  /\ Len(current_session[1].conversation_history) < MaxMessages
  /\ current_session' = <<SessionAddMessage(current_session[1], msg)>>
  /\ cmd' = NoCmd
  /\ ForgetQuestion
  /\ UNCHANGED <<sessions_dir, fs_clock, next_session_id, saves>>

\* SessionManager.update_tokens(prompt, completion)
update_tokens(prompt, completion) ==
  /\ AtPrompt
  /\ current_session # <<>>
  /\ current_session[1].token_usage.total_tokens < MaxTokens
  /\ current_session' =
       <<[current_session[1] EXCEPT
            !.token_usage = TokenUpdate(@, prompt, completion)]>>
  /\ cmd' = NoCmd
  /\ ForgetQuestion
  /\ UNCHANGED <<sessions_dir, fs_clock, next_session_id, saves>>

\* the session manager as the /session commands and the orchestrator use it
NextSessions ==
  \/ \E at \in CreationTimes : start_session(at)
  \/ \E n \in SaveNames : save_session(n)
  \/ \E i \in Identifiers : load_session(i)
  \/ clear_history
  \/ add_message(UserMsg("q1"))
  \/ update_tokens(2, 1)

(* ------------------------------ AgentSettings ------------------------- *)
\* OutputMode
OutputModes == {"auto", "observation", "query"}

\* AgentSettings() with its defaults
DefaultSettings ==
  [model |-> DEFAULT_MODEL, output_mode |-> "auto", rag_verbose |-> FALSE,
   verbose |-> FALSE]

SettingsInit ==
  /\ settings = DefaultSettings
  /\ tools = <<>>

\* the tools argument of a model call is computed, under the mode of the call
get_filtered_tools ==
  /\ tools' = ToolsOfCall(settings)
  /\ UNCHANGED <<settings, current_session>>

\* the arguments typed after /model and /output; "" is no argument
ModelArgs == AVAILABLE_MODELS \cup {"", "gpt-5"}
OutputArgs == OutputModes \cup {"", "AUTO", "table"}

\* arg.lower() of the arguments used here
Lower(arg) == IF arg = "AUTO" THEN "auto" ELSE arg

\* /model <name>: _handle_model; the current session follows the setting
handle_model(arg) ==
  /\ arg \in AVAILABLE_MODELS
  /\ settings' = [settings EXCEPT !.model = arg]
  /\ current_session' =
       IF current_session # <<>>
         THEN <<[current_session[1] EXCEPT
                   !.model = arg, !.context_limit = MODEL_CONTEXT_LIMITS[arg]]>>
         ELSE current_session
  /\ UNCHANGED tools

\* /output <mode>: _handle_output; an unknown mode changes nothing
handle_output(arg) ==
  /\ arg # ""
  /\ settings' =
       IF Lower(arg) \in OutputModes
         THEN [settings EXCEPT !.output_mode = Lower(arg)]
         ELSE settings
  /\ UNCHANGED <<tools, current_session>>

\* /verbose: _handle_verbose
handle_verbose ==
  /\ settings' = [settings EXCEPT !.verbose = ~@]
  /\ UNCHANGED <<tools, current_session>>

\* /rag verbose without argument: the toggle of _handle_rag
handle_rag_verbose ==
  /\ settings' = [settings EXCEPT !.rag_verbose = ~@]
  /\ UNCHANGED <<tools, current_session>>

\* what the settings commands leave alone
settingsFrame ==
  <<sessions_dir, fs_clock, cmd, next_session_id, saves, pc, current_question,
    questions, round, response, sent, batch, idx, output, next_call_id,
    displayed, memory, last, rag, collections, now, indexed, retrieved, budget,
    filtered, formatted, code, dataframes, executed, toolVars>>

NextSettings ==
  \/ \E arg \in ModelArgs : handle_model(arg) /\ UNCHANGED settingsFrame
  \/ \E arg \in OutputArgs : handle_output(arg) /\ UNCHANGED settingsFrame
  \/ handle_verbose /\ UNCHANGED settingsFrame
  \/ handle_rag_verbose /\ UNCHANGED settingsFrame
  \/ get_filtered_tools /\ UNCHANGED settingsFrame

(* ------------------------------ MemoryStore --------------------------- *)
\* the warehouse as get_tables / get_columns describe it: full table names
\* and the columns of each
DbTables == {"m.a", "m.a_b"}
DbColumns(t) == IF t = "m.a" THEN {"b_c"} ELSE {"c"}
ColumnNames == {"c", "b_c"}
ColumnType == "int"
\* str(sample_records), or None ("") for an empty table
SampleData == {"", "rows"}
\* the questions and observations that get indexed
IndexedQuestions == {"q1"}
IndexedObservations == {"o1"}

\* MemoryStore() over an empty chroma directory
StoreInit ==
  /\ collections = [schema |-> {}, queries |-> {}, observations |-> {}]
  /\ now = 1
  /\ indexed = [calls |-> 0, schema |-> 0, queries |-> 0, observations |-> 0]

\* the metadata keys the index methods write; "" is a key left out
NoMetadata ==
  [type |-> "", table_name |-> "", column_name |-> "", column_names |-> "",
   column_type |-> "", question |-> "", sql |-> "", result_summary |-> "",
   indexed_at |-> 0]

\* coll.upsert as an add: an item of the same id stays beside the new one
UpsertAdds(coll, item) == coll \cup {item}

\* coll.upsert(ids=[item_id], ...): the item replaces the one of that id
Upsert(coll, item) == {i \in coll : i.id # item.id} \cup {item}

\* MemoryStore._add_item, the embedding having been computed
add_item(colls, c, item_id, text, metadata) ==
  [colls EXCEPT ![c] = Upsert(@, [id |-> item_id, text |-> text,
                                  metadata |-> metadata])]

\* ", ".join(f"{c['name']} ({c['type']})" for c in columns) for the
\* column sets used here
ColDescriptions(cols) ==
  IF cols = {} THEN ""
  ELSE IF cols = {"c"} THEN "c (int)"
  ELSE IF cols = {"b_c"} THEN "b_c (int)"
  ELSE "c (int), b_c (int)"

\* ",".join(c["name"] for c in columns)
ColNames(cols) ==
  IF cols = {} THEN ""
  ELSE IF cols = {"c"} THEN "c"
  ELSE IF cols = {"b_c"} THEN "b_c"
  ELSE "c,b_c"

\* the text index_table embeds
TableText(t, cols, sample) ==
  "Table: " \o t \o "\nColumns: " \o ColDescriptions(cols)
    \o (IF sample # "" THEN "\nSample data:\n" \o sample ELSE "")

\* f"table_{table_name}"
TableId(t) == "table_" \o t

\* f"col_{table_name}_{column_name}"
ColumnId(t, c) == "col_" \o t \o "_" \o c

\* MemoryStore.index_table on the collections
IndexTable(colls, t, cols, sample, at) ==
  add_item(colls, "schema", TableId(t), TableText(t, cols, sample),
           [NoMetadata EXCEPT !.type = "table", !.table_name = t,
                              !.column_names = ColNames(cols),
                              !.indexed_at = at])

\* MemoryStore.index_column on the collections (no sample values)
IndexColumn(colls, t, c, at) ==
  add_item(colls, "schema", ColumnId(t, c),
           "Column: " \o t \o "." \o c \o " (type: " \o ColumnType \o ")",
           [NoMetadata EXCEPT !.type = "column", !.table_name = t,
                              !.column_name = c, !.column_type = ColumnType,
                              !.indexed_at = at])

\* datetime.now() read again: the wall clock has moved on, or it shows the
\* microsecond of the reading before
ClockReadings == {now, now + 1}

\* now.strftime('%Y%m%d_%H%M%S_%f') after the prefix
StampId(prefix, at) == prefix \o ToString(at)

\* an index call starts: e is what the embedder does on its first call
IndexCall(e) ==
  /\ indexed.calls < MaxIndexCalls
  /\ e \in {"ok", "raised"}

\* what the store operations leave alone
storeFrame ==
  <<current_session, sessions_dir, fs_clock, cmd, next_session_id, saves, pc,
    current_question, questions, round, response, sent, batch, idx, output,
    next_call_id, displayed, memory, last, rag, settings, tools, retrieved,
    budget, filtered, formatted, code, dataframes, executed, toolVars>>

\* index_table(table_name, columns, sample_data)
index_table(t, cols, sample, at, e) ==
  /\ IndexCall(e)
  /\ now' = at
  /\ IF e = "ok"
       THEN /\ collections' = IndexTable(collections, t, cols, sample, at)
            /\ indexed' = [indexed EXCEPT !.calls = @ + 1, !.schema = @ + 1]
       ELSE /\ indexed' = [indexed EXCEPT !.calls = @ + 1]
            /\ UNCHANGED collections
  /\ UNCHANGED storeFrame

\* index_column(table_name, column_name, column_type)
index_column(t, c, at, e) ==
  /\ IndexCall(e)
  /\ now' = at
  /\ IF e = "ok"
       THEN /\ collections' = IndexColumn(collections, t, c, at)
            /\ indexed' = [indexed EXCEPT !.calls = @ + 1, !.schema = @ + 1]
       ELSE /\ indexed' = [indexed EXCEPT !.calls = @ + 1]
            /\ UNCHANGED collections
  /\ UNCHANGED storeFrame

\* the inner loop of index_schema_from_db over the columns still to do
RECURSIVE IndexColumns(_, _, _, _)
IndexColumns(colls, t, todo, at) ==
  IF todo = {} THEN colls
  ELSE LET c == CHOOSE x \in todo : TRUE IN
         IndexColumns(IndexColumn(colls, t, c, at), t, todo \ {c}, at)

\* the loop of index_schema_from_db over the tables still to do
RECURSIVE IndexSchema(_, _, _, _)
IndexSchema(colls, todo, sample, at) ==
  IF todo = {} THEN colls
  ELSE LET t == CHOOSE x \in todo : TRUE
           withTable == IndexTable(colls, t, DbColumns(t), sample, at)
       IN IndexSchema(IndexColumns(withTable, t, DbColumns(t), at),
                      todo \ {t}, sample, at)

\* the _add_item calls one run of index_schema_from_db makes
RECURSIVE SchemaAdds(_)
SchemaAdds(todo) ==
  IF todo = {} THEN 0
  ELSE LET t == CHOOSE x \in todo : TRUE IN
         1 + Cardinality(DbColumns(t)) + SchemaAdds(todo \ {t})

\* index_schema_from_db()
index_schema_from_db(sample, at, e) ==
  /\ IndexCall(e)
  /\ now' = at
  /\ IF e = "ok"
       THEN /\ collections' = IndexSchema(collections, DbTables, sample, at)
            /\ indexed' = [indexed EXCEPT !.calls = @ + 1,
                                          !.schema = @ + SchemaAdds(DbTables)]
       ELSE /\ indexed' = [indexed EXCEPT !.calls = @ + 1]
            /\ UNCHANGED collections
  /\ UNCHANGED storeFrame

\* index_query(question, sql, result_summary): the id is the time of the call
index_query(q, at, e) ==
  /\ IndexCall(e)
  /\ now' = at
  /\ IF e = "ok"
       THEN /\ collections' =
                 add_item(collections, "queries", StampId("query_", at),
                          "Question: " \o q \o "\nSQL: select\nResult: 1",
                          [NoMetadata EXCEPT !.type = "query", !.question = q,
                                             !.sql = "select",
                                             !.result_summary = "1",
                                             !.indexed_at = at])
            /\ indexed' = [indexed EXCEPT !.calls = @ + 1, !.queries = @ + 1]
       ELSE /\ indexed' = [indexed EXCEPT !.calls = @ + 1]
            /\ UNCHANGED collections
  /\ UNCHANGED storeFrame

\* index_observation(observation): the id is the time of the call
index_observation(o, at, e) ==
  /\ IndexCall(e)
  /\ now' = at
  /\ IF e = "ok"
       THEN /\ collections' =
                 add_item(collections, "observations", StampId("obs_", at), o,
                          [NoMetadata EXCEPT !.type = "observation",
                                             !.indexed_at = at])
            /\ indexed' = [indexed EXCEPT !.calls = @ + 1,
                                          !.observations = @ + 1]
       ELSE /\ indexed' = [indexed EXCEPT !.calls = @ + 1]
            /\ UNCHANGED collections
  /\ UNCHANGED storeFrame

\* the schema items index_schema_from_db leaves in an empty store
SchemaItemsOfDb ==
  Cardinality(IndexSchema([schema |-> {}, queries |-> {}, observations |-> {}],
                          DbTables, "", 1).schema)

NextStore ==
  \/ \E t \in DbTables, cols \in SUBSET ColumnNames, sample \in SampleData,
        at \in ClockReadings, e \in EnvOutcomes :
       index_table(t, cols, sample, at, e)
  \/ \E t \in DbTables, c \in ColumnNames, at \in ClockReadings,
        e \in EnvOutcomes :
       index_column(t, c, at, e)
  \/ \E sample \in SampleData, at \in ClockReadings, e \in EnvOutcomes :
       index_schema_from_db(sample, at, e)
  \/ \E q \in IndexedQuestions, at \in ClockReadings, e \in EnvOutcomes :
       index_query(q, at, e)
  \/ \E o \in IndexedObservations, at \in ClockReadings, e \in EnvOutcomes :
       index_observation(o, at, e)

(* ------------------------------ /rag commands ------------------------ *)
\* back at the prompt after a /rag command
AfterRagCommand ==
  /\ pc' = "idle"
  /\ round' = 0
  /\ response' = <<>>
  /\ sent' = <<>>
  /\ batch' = <<>>
  /\ idx' = 1
  /\ output' = <<>>
  /\ displayed' = <<>>
  /\ last' = NoDispatch
  /\ rag' = NoRetrieval
  /\ UNCHANGED <<sessionVars, current_question, questions, next_call_id>>
  /\ UNCHANGED libraryVars

\* /rag index: nothing when the schema is indexed already, else
\* index_schema_from_db; e is what the embedder does
rag_index(e) ==
  /\ AtPrompt
  /\ memory.schema = 0
  /\ memory' =
       IF e = "ok"
         THEN [memory EXCEPT !.schema = SchemaItemsOfDb]
         ELSE memory
  /\ AfterRagCommand

(* ------------------------------ ContextRetriever ---------------------- *)
TOKEN_BUDGET == [schema |-> 2000, queries |-> 1500, observations |-> 500]

CHARS_PER_TOKEN == 4

\* A retrieved item, by the lengths of its parts: the lengths of the
\* metadata values the index methods stored, and for an observation the
\* length of its text.  A length of 0 is an empty or missing value.
NoItem ==
  [type |-> "", table_name |-> 0, columns |-> 0, column_names |-> 0,
   column_types |-> 0, sample |-> 0, column_name |-> 0, column_type |-> 0,
   question |-> 0, sql |-> 0, result_summary |-> 0, observation |-> 0]

\* a table of `columns` columns whose names total column_names characters
\* and whose types column_types, with a sample of `sample` characters
TableItem(t, k, names, types, sample) ==
  [NoItem EXCEPT !.type = "table", !.table_name = t, !.columns = k,
                 !.column_names = names, !.column_types = types,
                 !.sample = sample]

ColumnItem(t, c, ty) ==
  [NoItem EXCEPT !.type = "column", !.table_name = t, !.column_name = c,
                 !.column_type = ty]

QueryItem(q, sql, r) ==
  [NoItem EXCEPT !.type = "query", !.question = q, !.sql = sql,
                 !.result_summary = r]

ObservationItem(o) ==
  [NoItem EXCEPT !.type = "observation", !.observation = o]

\* len(item["text"]): the document as the index method of the item's
\* type built it (store.py)
TextLen(item) ==
  CASE item.type = "table" ->
         \* "Table: " t "\nColumns: " "name (type)" joined by ", "
         7 + item.table_name + 10
           + item.column_names + item.column_types + 3 * item.columns
           + (IF item.columns > 1 THEN 2 * (item.columns - 1) ELSE 0)
           + (IF item.sample > 0 THEN 14 + item.sample ELSE 0)
    [] item.type = "column" ->
         \* "Column: " t "." c " (type: " ty ")"
         8 + item.table_name + 1 + item.column_name + 8 + item.column_type + 1
    [] item.type = "query" ->
         \* "Question: " q "\nSQL: " sql "\nResult: " r
         10 + item.question + 6 + item.sql + 9 + item.result_summary
    [] OTHER -> item.observation

\* the characters an item adds to its section, each line with the "\n"
\* that joins it to the line before
LineLen(item) ==
  CASE item.type = "table" ->
         \* "- **" t "**: " column_names.replace(",", ", ")
         1 + 4 + item.table_name + 4 + item.column_names
           + (IF item.columns > 1 THEN 2 * (item.columns - 1) ELSE 0)
    [] item.type = "column" ->
         \* "- " t "." c " (" ty ")"
         1 + 2 + item.table_name + 1 + item.column_name + 2 + item.column_type + 1
    [] item.type = "query" ->
         IF item.question > 0 /\ item.sql > 0
           THEN \* "**Q:** " q, "```sql\n" sql "\n```", "*Result: " r[:100] "*", ""
                (1 + 7 + item.question) + (1 + 11 + item.sql)
                  + (IF item.result_summary > 0
                       THEN 1 + 10 + Min(item.result_summary, 100) ELSE 0)
                  + 1
           ELSE 0
    [] OTHER ->
         \* "- " text, the text cut to 197 characters and "..." when over 200
         IF item.observation > 0 THEN 1 + 2 + Min(item.observation, 200) ELSE 0

\* an item is rendered when it adds a line to its section
Rendered(item) == LineLen(item) > 0

\* the test with < in place of <=: an item that fills the budget is left out
FitsStrictly(total_chars, item_chars, max_chars) ==
  total_chars + item_chars < max_chars

\* total_chars + item_chars <= max_chars
Fits(total_chars, item_chars, max_chars) ==
  total_chars + item_chars <= max_chars

RECURSIVE BudgetLoop(_, _, _, _, _)

\* continue in place of break: the loop goes on to the items after the
\* one that did not fit
AfterOverflowContinues(items, i, total_chars, kept, max_chars) ==
  BudgetLoop(items, i + 1, total_chars, kept, max_chars)

\* the else branch of the loop: break
AfterOverflow(items, i, total_chars, kept, max_chars) == kept

\* the for loop of _apply_token_budget from item i on
BudgetLoop(items, i, total_chars, kept, max_chars) ==
  IF i > Len(items) THEN kept
  ELSE IF Fits(total_chars, TextLen(items[i]), max_chars)
    THEN BudgetLoop(items, i + 1, total_chars + TextLen(items[i]),
                    Append(kept, items[i]), max_chars)
    ELSE AfterOverflow(items, i, total_chars, kept, max_chars)

\* ContextRetriever._apply_token_budget
ApplyTokenBudget(items, b) ==
  BudgetLoop(items, 1, 0, <<>>, b * CHARS_PER_TOKEN)

RECURSIVE SumLines(_, _)
SumLines(items, i) ==
  IF i > Len(items) THEN 0 ELSE LineLen(items[i]) + SumLines(items, i + 1)

\* len("### Relevant Schema"), len("### Similar Past Queries"),
\* len("### Related Insights")
HeaderLen == [schema |-> 19, queries |-> 24, observations |-> 20]

\* _format_schema / _format_queries / _format_observations: the length of
\* the section, the items kept under the budget and those rendered
FormatSection(c, items) ==
  IF items = <<>>
    THEN [chars |-> 0, kept |-> 0, rendered |-> 0]
    ELSE LET kept == ApplyTokenBudget(items, TOKEN_BUDGET[c]) IN
           [chars |-> HeaderLen[c] + SumLines(kept, 1),
            kept |-> Len(kept),
            rendered |-> Cardinality({i \in DOMAIN kept : Rendered(kept[i])})]

\* ContextRetriever.format_for_prompt: the three sections, and whether the
\* "Retrieved Context" block is returned
FormatForPrompt(result) ==
  LET schema == FormatSection("schema", result.schema_items)
      queries == FormatSection("queries", result.query_items)
      observations == FormatSection("observations", result.observation_items)
  IN [schema |-> schema, queries |-> queries, observations |-> observations,
      block |-> (schema.chars > 0 \/ queries.chars > 0 \/ observations.chars > 0)]

\* the items a search can return, by collection
SchemaItems ==
  {TableItem(3, 1, 1, 3, 0), ColumnItem(3, 1, 3)}
QueryItems ==
  {QueryItem(2, 6, 1), QueryItem(2, 5972, 1), QueryItem(2, 8000, 0)}
ObservationItems ==
  {ObservationItem(10), ObservationItem(1995)}

\* the budgets _apply_token_budget is tried with
Budgets == {0, 7, 9, 14, 500, 1500, 2000}

SeqsUpTo(S, n) == UNION {[1..k -> S] : k \in 0..n}

\* the items of a result by the collection's key
ItemsOf(result, c) ==
  CASE c = "schema" -> result.schema_items
    [] c = "queries" -> result.query_items
    [] OTHER -> result.observation_items

CollectionKeys == {"schema", "queries", "observations"}

RetrieverIdle ==
  /\ retrieved = [schema_items |-> <<>>, query_items |-> <<>>,
                  observation_items |-> <<>>]
  /\ budget = 0
  /\ filtered = <<>>
  /\ formatted = <<>>

\* a retrieval result and a budget, nothing applied yet
RetrieverInit ==
  /\ retrieved \in [schema_items : SeqsUpTo(SchemaItems, MaxItems),
                     query_items : SeqsUpTo(QueryItems, MaxItems),
                     observation_items : SeqsUpTo(ObservationItems, MaxItems)]
  /\ budget \in Budgets
  /\ filtered = <<>>
  /\ formatted = <<>>

retrieverFrame ==
  <<current_session, sessions_dir, fs_clock, cmd, next_session_id, saves, pc,
    current_question, questions, round, response, sent, batch, idx, output,
    next_call_id, displayed, memory, last, rag, settings, tools, collections,
    now, indexed, retrieved, budget, code, dataframes, executed, toolVars>>

\* _apply_token_budget(items, budget) on the items of one collection
apply_token_budget(c) ==
  /\ filtered' = <<[collection |-> c,
                    items |-> ApplyTokenBudget(ItemsOf(retrieved, c), budget)]>>
  /\ UNCHANGED formatted
  /\ UNCHANGED retrieverFrame

\* format_for_prompt(result)
format_for_prompt ==
  /\ formatted' = <<FormatForPrompt(retrieved)>>
  /\ UNCHANGED filtered
  /\ UNCHANGED retrieverFrame

NextRetriever ==
  \/ \E c \in CollectionKeys : apply_token_budget(c)
  \/ format_for_prompt

(* ------------------------------ PythonExecutor ------------------------ *)
\* the keys of ALLOWED_MODULES
ALLOWED_MODULES == {"pd", "pandas", "np", "numpy"}

\* the names a piece of code assigns when it runs to its end
BoundNames == {"result", "x", "pd"}
\* the names of the dataframes argument
InputNames == {"result", "df", "pd"}

\* what a piece of code attempts before anything else: nothing, an import
\* statement (import os), a call of the builtin open (open(path)), a read
\* through the pandas module the executor provides (pd.read_csv(path)), or
\* a read through its other name (pandas.read_csv(path)), or a write through
\* an input dataframe (df.to_csv(path))
Attempts == {"none", "import", "open", "pd", "pandas", "df"}

\* the keys of the dict _safe_builtins returns
SafeBuiltins ==
  {"abs", "all", "any", "bool", "dict", "enumerate", "filter", "float",
   "int", "len", "list", "map", "max", "min", "print", "range", "round",
   "set", "sorted", "str", "sum", "tuple", "zip", "True", "False", "None"}

ExecutorIdle ==
  /\ code = [binds |-> {}, raises |-> FALSE, attempts |-> "none"]
  /\ dataframes = {}
  /\ executed = <<>>

\* a code string, by what running it does, and a mapping of inputs
ExecutorInit ==
  /\ code \in [binds : SUBSET BoundNames, raises : BOOLEAN,
                attempts : Attempts]
  /\ dataframes \in SUBSET InputNames
  /\ executed = <<>>

\* local_vars before exec: {**ALLOWED_MODULES, **dataframes}
LocalVars(dfs) == ALLOWED_MODULES \cup dfs

\* where the value under a name of local_vars comes from after exec
ValueSource(name, c, dfs) ==
  IF name \in c.binds THEN "code"
  ELSE IF name \in dfs THEN "dataframe"
  ELSE "module"

\* "result" not in local_vars, after exec has run to its end
ResultMissing(c, dfs) == "result" \notin (LocalVars(dfs) \cup c.binds)

\* the name an attempt looks up, and where exec looks for it: an import
\* statement calls __import__ of the builtins given to exec; any other name
\* is looked up in local_vars, then in the globals (only __builtins__),
\* then in the builtins
AttemptName(a) == IF a = "import" THEN "__import__" ELSE a
Resolves(a, dfs) ==
  IF a = "import" THEN AttemptName(a) \in SafeBuiltins
  ELSE AttemptName(a) \in (LocalVars(dfs) \cup SafeBuiltins)

\* how an attempt ends: a missing __import__ is an ImportError, a missing
\* name a NameError; read_csv is a function of the pandas module, which an
\* input of the module's name does not have (AttributeError), and to_csv
\* a method of a dataframe, which a module does not have; the object that
\* has the function reads or writes the file
AttemptOutcome(a, dfs) ==
  IF a = "none" THEN "none"
  ELSE IF ~Resolves(a, dfs)
    THEN (IF a = "import" THEN "ImportError" ELSE "NameError")
  ELSE IF (a = "df") # (AttemptName(a) \in dfs) THEN "AttributeError"
  ELSE "accessed"

Blocked(c, dfs) == AttemptOutcome(c.attempts, dfs) \notin {"none", "accessed"}

\* PythonExecutor.execute: (result, error), and whether the code reached
\* the filesystem or a module outside ALLOWED_MODULES
Execute(c, dfs) ==
  IF Blocked(c, dfs)
    THEN [error |-> AttemptOutcome(c.attempts, dfs), result |-> "none",
          accessed |-> FALSE]
  ELSE IF c.raises
    THEN [error |-> "exception", result |-> "none",
          accessed |-> AttemptOutcome(c.attempts, dfs) = "accessed"]
  ELSE IF ResultMissing(c, dfs)
    THEN [error |-> "must define a 'result' variable", result |-> "none",
          accessed |-> AttemptOutcome(c.attempts, dfs) = "accessed"]
  ELSE [error |-> "none", result |-> ValueSource("result", c, dfs),
        accessed |-> AttemptOutcome(c.attempts, dfs) = "accessed"]

executorFrame ==
  <<current_session, sessions_dir, fs_clock, cmd, next_session_id, saves, pc,
    current_question, questions, round, response, sent, batch, idx, output,
    next_call_id, displayed, memory, last, rag, settings, tools, collections,
    now, indexed, retrieved, budget, filtered, formatted, code, dataframes,
    toolVars>>

\* execute(code, dataframes)
execute ==
  /\ executed = <<>>
  /\ executed' = <<Execute(code, dataframes)>>
  /\ UNCHANGED executorFrame

(* ------------------------------ the warehouse ------------------------- *)
\* the rows of the column v of the warehouse's table t
FixtureRows == <<10, 20, 30>>

NoCall == <<>>

ToolsIdle ==
  /\ warehouse = [rows |-> FixtureRows, intact |-> TRUE]
  /\ call = NoCall
  /\ returned = <<>>
  /\ notes = <<>>

\* the statements given to the warehouse: SELECT v FROM t, a SELECT from a
\* table that does not exist, and INSERT INTO t VALUES (1)
Statements == {"select", "missing", "insert"}

\* duckdb.connect(path, read_only=...).execute(sql).fetchdf(): the dataframe
\* (<<rows>>) or the exception, and the warehouse afterwards; a file that is
\* not a database cannot be opened
ConnExecute(w, sql, read_only) ==
  IF ~w.intact
    THEN [df |-> <<>>, error |-> "IOException", after |-> w]
  ELSE CASE sql = "select" ->
              [df |-> <<w.rows>>, error |-> "none", after |-> w]
         [] sql = "missing" ->
              [df |-> <<>>, error |-> "CatalogException", after |-> w]
         [] OTHER ->
              IF read_only
                THEN [df |-> <<>>, error |-> "InvalidInputException",
                      after |-> w]
                ELSE [df |-> << <<1>> >>, error |-> "none",
                      after |-> [w EXCEPT !.rows = Append(@, 1)]]

\* SQLExecutor.execute: (dataframe, error)
SQLExecute(w, sql) == ConnExecute(w, sql, TRUE)

\* schema.get_connection() and a query of the catalog or of a table on it
CatalogQuery(w) == ConnExecute(w, "select", TRUE)

\* dataframes[name] = df
Bind(dfs, name, df) ==
  [n \in (DOMAIN dfs) \cup {name} |-> IF n = name THEN df ELSE dfs[n]]

\* the loop over inputs.items() of submit_result and run_python: the
\* dataframes bound when it ends, and the input it ended on with an error
RECURSIVE RunQueries(_, _, _, _)
RunQueries(w, inputs, i, dfs) ==
  IF i > Len(inputs)
    THEN [dataframes |-> dfs, error |-> "none", failed |-> "",
          ran |-> i - 1, after |-> w]
  ELSE LET r == SQLExecute(w, inputs[i].sql) IN
       IF r.error # "none"
         THEN [dataframes |-> dfs, error |-> r.error,
               failed |-> inputs[i].name, ran |-> i, after |-> r.after]
         ELSE RunQueries(r.after, inputs, i + 1,
                         Bind(dfs, inputs[i].name, r.df[1]))

RECURSIVE SumRows(_, _)
SumRows(rows, i) ==
  IF i > Len(rows) THEN 0 ELSE rows[i] + SumRows(rows, i + 1)

NoValue == [kind |-> "none", value |-> <<>>]

\* a function (or the code of run_python): what running it does, the input
\* whose column v it sums (result = <reads>["v"].sum() when it binds
\* result), and the path its write goes to when it attempts one
FunctionValue(f, dfs) ==
  [kind |-> "number", value |-> <<SumRows(dfs[f.reads], 1)>>]

\* py_executor.execute(function, dataframes); reading an input that was not
\* given is a NameError
ExecuteOn(f, dfs) ==
  LET c == [f.code EXCEPT !.raises = @ \/ f.reads \notin DOMAIN dfs]
      e == Execute(c, DOMAIN dfs)
  IN  [error |-> e.error,
       accessed |-> e.accessed,
       result |-> CASE e.result = "code" -> FunctionValue(f, dfs)
                    [] e.result = "dataframe" ->
                         [kind |-> "dataframe", value |-> dfs["result"]]
                    [] OTHER -> NoValue]

\* the warehouse file after code that wrote to a path
AfterCode(w, f, e) ==
  IF e.accessed /\ f.code.attempts = "df" /\ f.target = "warehouse"
    THEN [w EXCEPT !.intact = FALSE]
    ELSE w

\* submit_result(inputs, function, explanation): the SubmitResultOutput
SubmitResult(w, inputs, f) ==
  LET q == RunQueries(w, inputs, 1, <<>>) IN
  IF q.error # "none"
    THEN [success |-> FALSE, result |-> NoValue, error |-> "SQL error",
          input |-> q.failed, ran |-> q.ran, after |-> q.after]
  ELSE LET e == ExecuteOn(f, q.dataframes) IN
       IF e.error # "none"
         THEN [success |-> FALSE, result |-> NoValue,
               error |-> "Function execution error", input |-> "",
               ran |-> q.ran, after |-> AfterCode(q.after, f, e)]
         ELSE [success |-> TRUE, result |-> e.result, error |-> "none",
               input |-> "", ran |-> q.ran,
               after |-> AfterCode(q.after, f, e)]

\* run_python(queries, code): str(result), or a text that starts with
\* "ERROR"
RunPython(w, queries, f) ==
  LET q == RunQueries(w, queries, 1, <<>>) IN
  IF q.error # "none"
    THEN [text |-> "ERROR executing SQL", result |-> NoValue,
          after |-> q.after]
  ELSE LET e == ExecuteOn(f, q.dataframes) IN
       IF e.error # "none"
         THEN [text |-> "ERROR", result |-> NoValue,
               after |-> AfterCode(q.after, f, e)]
         ELSE [text |-> "result", result |-> e.result,
               after |-> AfterCode(q.after, f, e)]

\* run_sql(sql): the rows as text, or a text that starts with "ERROR"
RunSql(w, sql) ==
  LET r == SQLExecute(w, sql) IN
  IF r.error # "none"
    THEN [text |-> "ERROR", result |-> NoValue, after |-> r.after]
  ELSE IF r.df[1] = <<>>
    THEN [text |-> "Query returned no results.", result |-> NoValue,
          after |-> r.after]
  ELSE [text |-> "result",
        result |-> [kind |-> "dataframe", value |-> r.df[1]],
        after |-> r.after]

\* the actions of inspect_schema's enum
SchemaActions == {"list_tables", "get_columns", "get_sample", "full_schema"}

\* inspect_schema(action, schema, table): the text it returns, whether it
\* queried the warehouse, and whether the query raised ("" is None)
InspectSchema(w, action, schema, table) ==
  LET q == CatalogQuery(w)
      queried(text) ==
        [text |-> IF q.error = "none" THEN text ELSE "",
         queried |-> TRUE, raised |-> q.error # "none", after |-> q.after]
      refused(text) ==
        [text |-> text, queried |-> FALSE, raised |-> FALSE, after |-> w]
  IN  CASE action = "list_tables" -> queried("Tables in database:")
        [] action = "get_columns" ->
             IF schema = "" \/ table = ""
               THEN refused("ERROR: 'schema' and 'table' are required for get_columns")
               ELSE queried("Columns in")
        [] action = "get_sample" ->
             IF schema = "" \/ table = ""
               THEN refused("ERROR: 'schema' and 'table' are required for get_sample")
               ELSE queried("Sample data from")
        [] action = "full_schema" -> queried("# Database Schema")
        [] OTHER -> refused("ERROR: Unknown action")

\* the names of the inputs of a call, and the functions the model writes
QueryNames == {"df", "result"}
QueryInputs ==
  {<<>>} \cup
  {<<[name |-> n, sql |-> q]>> : n \in QueryNames, q \in Statements} \cup
  UNION {{<<[name |-> n1, sql |-> q1], [name |-> n2, sql |-> q2]>> :
            n2 \in QueryNames \ {n1}, q1 \in Statements, q2 \in Statements} :
         n1 \in QueryNames}
Functions ==
  {[code |-> [binds |-> b, raises |-> FALSE, attempts |-> a],
    reads |-> r, target |-> t] :
     b \in {{"result"}, {"x"}}, a \in {"none", "import", "df"},
     r \in QueryNames, t \in {"warehouse", "elsewhere"}}

toolsFrame ==
  <<current_session, sessions_dir, fs_clock, cmd, next_session_id, saves, pc,
    current_question, questions, round, response, sent, batch, idx, output,
    next_call_id, displayed, memory, last, rag, settings, tools, collections,
    now, indexed, retrieved, budget, filtered, formatted, code, dataframes,
    executed, notes>>

\* the model calls submit_result
submit_result(inputs, f) ==
  LET out == SubmitResult(warehouse, inputs, f) IN
  /\ call' = <<[tool |-> "submit_result", inputs |-> inputs, function |-> f]>>
  /\ returned' = <<out>>
  /\ warehouse' = out.after
  /\ UNCHANGED toolsFrame

\* the model calls run_python
run_python(queries, f) ==
  LET out == RunPython(warehouse, queries, f) IN
  /\ call' = <<[tool |-> "run_python", inputs |-> queries, function |-> f]>>
  /\ returned' = <<out>>
  /\ warehouse' = out.after
  /\ UNCHANGED toolsFrame

\* the model calls run_sql
run_sql(sql) ==
  LET out == RunSql(warehouse, sql) IN
  /\ call' = <<[tool |-> "run_sql", sql |-> sql]>>
  /\ returned' = <<out>>
  /\ warehouse' = out.after
  /\ UNCHANGED toolsFrame

\* the model calls inspect_schema
inspect_schema(action, schema, table) ==
  LET out == InspectSchema(warehouse, action, schema, table) IN
  /\ call' = <<[tool |-> "inspect_schema", action |-> action,
               schema |-> schema, table |-> table]>>
  /\ returned' = <<out>>
  /\ warehouse' = out.after
  /\ UNCHANGED toolsFrame

\* the arguments of a tool call after json.loads, by key: "" is a key that
\* is not given, JsonNumber the JSON number 5, anything else a JSON string
JsonNumber == "number 5"
ArgKeys == {"sql", "action", "schema", "table"}

\* the "properties", "required" and "enum" of the tool definitions
DeclaredKeys(tool) ==
  IF tool = "run_sql" THEN {"sql"} ELSE {"action", "schema", "table"}
RequiredKeys(tool) == IF tool = "run_sql" THEN {"sql"} ELSE {"action"}
Given(args) == {k \in ArgKeys : args[k] # ""}

\* the arguments fail the declared schema: a required key is missing, a key
\* is given that the tool does not declare, or the action is outside the enum
FailsSchema(tool, args) ==
  \/ RequiredKeys(tool) \ Given(args) # {}
  \/ Given(args) \ DeclaredKeys(tool) # {}
  \/ tool = "inspect_schema" /\ args.action \notin SchemaActions \cup {""}

\* _summarize_args(tool_name, tool_args): the summary, or the exception of
\* sql.lower() on a value that is not a string
SummarizeArgs(tool, args) ==
  IF tool = "run_sql"
    THEN (IF args.sql = JsonNumber THEN [raised |-> TRUE, summary |-> ""]
          ELSE [raised |-> FALSE, summary |-> "executing query"])
  ELSE IF args.table # ""
    THEN [raised |-> FALSE, summary |-> args.action \o " on " \o args.table]
  ELSE [raised |-> FALSE, summary |-> args.action]

\* print_tool_call(tool_name, args_summary) raises on len() of a summary
\* that is a number
PrintToolCallRaises(summary) == summary = JsonNumber

\* handler(**tool_args): Python refuses the call when a parameter without a
\* default is missing or a keyword is not a parameter
CallRefused(tool, args) ==
  \/ RequiredKeys(tool) \ Given(args) # {}
  \/ Given(args) \ DeclaredKeys(tool) # {}

\* one iteration of the loop of _handle_tool_calls for run_sql or
\* inspect_schema: the tool-result appended ("" when none is), whether an
\* exception left process_question, whether the warehouse was queried
HandleToolCall(w, tool, args) ==
  LET sm == SummarizeArgs(tool, args) IN
  IF sm.raised \/ PrintToolCallRaises(sm.summary)
    THEN [tool_result |-> "", raised |-> TRUE, queried |-> FALSE,
          after |-> w]
  ELSE IF CallRefused(tool, args)
    THEN [tool_result |-> "Error: TypeError", raised |-> FALSE,
          queried |-> FALSE, after |-> w]
  ELSE IF tool = "run_sql"
    THEN LET out == RunSql(w, args.sql) IN
         [tool_result |-> out.text, raised |-> FALSE, queried |-> TRUE,
          after |-> out.after]
  ELSE LET out == InspectSchema(w, args.action, args.schema, args.table) IN
       [tool_result |-> IF out.raised THEN "Error: IOException"
                        ELSE out.text,
        raised |-> FALSE, queried |-> out.queried, after |-> out.after]

\* the model requests run_sql or inspect_schema with a JSON object
handle_tool_call(tool, args) ==
  LET out == HandleToolCall(warehouse, tool, args) IN
  /\ call' = <<[tool |-> "tool_call", name |-> tool, args |-> args]>>
  /\ returned' = <<out>>
  /\ warehouse' = out.after
  /\ UNCHANGED toolsFrame

ToolCallArgs ==
  [sql : {"", "select", JsonNumber},
   action : {"", "list_tables", "get_columns", "drop_table", JsonNumber},
   schema : {"", "main"},
   table : {"", "t"}]

NextTools ==
  \/ \E t \in {"run_sql", "inspect_schema"}, a \in ToolCallArgs :
       handle_tool_call(t, a)
  \/ \E i \in QueryInputs, f \in Functions : submit_result(i, f)
  \/ \E i \in QueryInputs, f \in Functions : run_python(i, f)
  \/ \E q \in Statements : run_sql(q)
  \/ \E a \in SchemaActions \cup {"drop_table"}, sc \in {"", "main"},
        t \in {"", "t"} : inspect_schema(a, sc, t)

(* ------------------------------ the context file ---------------------- *)

\* section_map in tool_update_context
section_map ==
  [overview |-> "## Overview", key_tables |-> "## Key Tables",
   relationships |-> "## Relationships",
   common_patterns |-> "## Common Patterns", notes |-> "## Notes"]

\* DEFAULT_CONTEXT.split('\n')
DEFAULT_CONTEXT ==
  <<"# Data Platform Context", "",
    "## Overview", "<!-- Brief description of this data platform -->", "",
    "## Key Tables", "<!-- Important tables and what they contain -->", "",
    "## Relationships", "<!-- How tables relate to each other -->", "",
    "## Common Patterns", "<!-- Useful query patterns discovered -->", "",
    "## Notes", "<!-- Other important observations -->", "">>

\* line.strip() over the lines that occur: one line is an indented header
Strip(line) == IF line = "  ## Notes" THEN "## Notes" ELSE line

\* line.strip().startswith('## ') over the lines that occur
SectionLine(line) ==
  Strip(line) \in {"## Overview", "## Key Tables", "## Relationships",
                   "## Common Patterns", "## Notes", "## Joins"}

\* read_context().split('\n'): a missing file reads as the empty text, and
\* the empty text splits into one empty line
ContextLines(file) == IF file = <<>> THEN <<"">> ELSE file

\* the for loop of tool_update_context from line i on, st holding
\* in_target_section, section_updated and new_lines; content is the lines
\* of the content string, which are the lines it makes in the file once
\* new_lines is joined
RECURSIVE UpdateLoop(_, _, _, _, _)
UpdateLoop(lines, i, header, content, st) ==
  IF i > Len(lines) THEN st
  ELSE IF SectionLine(lines[i]) /\ Strip(lines[i]) = header
    THEN UpdateLoop(lines, i + 1, header, content,
                    [in_target_section |-> TRUE, section_updated |-> TRUE,
                     new_lines |-> Append(st.new_lines, lines[i]) \o content])
  ELSE LET in_target == IF SectionLine(lines[i]) THEN FALSE
                        ELSE st.in_target_section IN
       UpdateLoop(lines, i + 1, header, content,
                  [in_target_section |-> in_target,
                   section_updated |-> st.section_updated,
                   new_lines |-> IF in_target THEN st.new_lines
                                 ELSE Append(st.new_lines, lines[i])])

\* tool_update_context(section, content): the file afterwards and the
\* text returned
UpdateContext(file, section, content) ==
  IF section \notin DOMAIN section_map
    THEN [file |-> file, text |-> <<"Unknown section: ", section>>]
  ELSE LET header == section_map[section]
           done == UpdateLoop(ContextLines(file), 1, header, content,
                              [in_target_section |-> FALSE,
                               section_updated |-> FALSE,
                               new_lines |-> <<>>]) IN
       [file |-> IF done.section_updated THEN done.new_lines
                 ELSE done.new_lines \o <<"", header>> \o content,
        text |-> <<"Updated ", section, " section.">>]

\* tool_read_context()
ReadContext(file) ==
  IF file = <<>> THEN <<"No context file exists yet.">>
  ELSE IF \A i \in 1..Len(file) : file[i] = ""
    THEN <<"Context file is empty.">>
  ELSE file

\* the context file before the agent touches it: none, the default
\* template, and files a user has edited, with the notes section twice and
\* its header indented, or without one
ContextFiles ==
  {<<>>, DEFAULT_CONTEXT,
   <<"# Data Platform Context", "## Notes", "old", "", "## Overview", "old",
     "  ## Notes", "old">>,
   <<"# Data Platform Context", "## Overview", "old">>}

\* the sections the model names
SectionNames == {"overview", "notes", "tables"}

\* the content strings the model gives, as their lines: one line, and a
\* content that has a markdown heading of its own
ContentStrings == {<<"a">>, <<"b", "## Joins", "c">>, <<"## Notes">>}

\* the lines of a file that start a section
SectionCount(lines) ==
  Cardinality({i \in 1..Len(lines) : SectionLine(lines[i])})

contextFrame ==
  <<current_session, sessions_dir, fs_clock, cmd, next_session_id, saves, pc,
    current_question, questions, round, response, sent, batch, idx, output,
    next_call_id, displayed, memory, last, rag, settings, tools, collections,
    now, indexed, retrieved, budget, filtered, formatted, code, dataframes,
    executed, warehouse>>

\* the model calls update_context
update_context(section, content) ==
  LET out == UpdateContext(notes, section, content) IN
  /\ SectionCount(ContextLines(notes)) <= MaxSectionLines
  /\ call' = <<[tool |-> "update_context", section |-> section,
               content |-> content, before |-> notes]>>
  /\ returned' = <<out.text>>
  /\ notes' = out.file
  /\ UNCHANGED contextFrame

\* the model calls read_context
read_context ==
  /\ call' = <<[tool |-> "read_context", section |-> "", content |-> <<>>,
               before |-> notes]>>
  /\ returned' = <<ReadContext(notes)>>
  /\ UNCHANGED <<notes, contextFrame>>

NextContext ==
  \/ \E section \in SectionNames, content \in ContentStrings :
       update_context(section, content)
  \/ read_context

(* ------------------------------ specifications ------------------------ *)
\* what can go wrong in the retrieval before a model call: nothing, the
\* store (or the retriever built on it), or the embedder
RetrievalFaults == {"none", "store", "embedder"}
HandlerOutcomes == {"success", "sql_error", "function_error", "raised"}
InternalOutcomes == {"returned", "raised"}

\* the names of a batch
BatchNames == UNION {[1..n -> RequestedTools] : n \in 1..MaxBatch}

AgentLoop ==
  \/ \E q \in Questions : process_question(q)
  \/ \E c \in TextContents, r \in RetrievalFaults, u \in ReportedUsages :
       CallLLMText(c, r, u)
  \/ \E names \in BatchNames, r \in RetrievalFaults, u \in ReportedUsages :
       CallLLMTools(names, r, u)
  \/ \E a \in ArgShapes : DispatchRaises(a)
  \/ \E a \in ArgShapes : DispatchUnknown(a)
  \/ \E a \in ArgShapes, h \in HandlerOutcomes, d \in EnvOutcomes :
       DispatchSubmitResult(a, h, d)
  \/ \E a \in ArgShapes, d \in EnvOutcomes, ix \in EnvOutcomes :
       DispatchSubmitObservation(a, d, ix)
  \/ \E a \in ArgShapes : DispatchSendMessage(a)
  \/ \E a \in ArgShapes, h \in InternalOutcomes : DispatchInternal(a, h)

\* the /rag commands that change the memory store
RagCommands ==
  \/ \E e \in EnvOutcomes : rag_index(e)

\* the Orchestrator, process_question and clear_history, over the memory
\* store as the /rag commands leave it
Next == AgentLoop \/ clear_history \/ RagCommands

\* the program as start_repl leaves it before the first line is read
Init ==
  /\ OrchestratorInit
  /\ SettingsInit
  /\ StoreInit
  /\ RetrieverIdle
  /\ ExecutorIdle
  /\ ToolsIdle

Spec == Init /\ [][Next]_vars

\* the Orchestrator over every state its SessionManager can be put in:
\* the /session commands of the REPL, and end_session, which is part of
\* the manager but which no command calls
SessionCommands ==
  \/ start_session(now)
  \/ \E n \in SaveNames : saves < MaxLoopSaves /\ save_session(n)
  \/ \E i \in Identifiers : load_session(i)
  \/ end_session

NextApi == Next \/ SessionCommands

SpecApi == Init /\ [][NextApi]_vars

\* the settings as the slash commands and the model calls use them
SpecSettings == Init /\ [][NextSettings]_vars

\* the memory store under its index methods
SpecStore == Init /\ [][NextStore]_vars

\* the retriever's formatting over the results a search can return
InitRetriever ==
  /\ OrchestratorInit
  /\ SettingsInit
  /\ StoreInit
  /\ RetrieverInit
  /\ ExecutorIdle
  /\ ToolsIdle

SpecRetriever == InitRetriever /\ [][NextRetriever]_vars

\* the restricted executor over code and inputs
InitExecutor ==
  /\ OrchestratorInit
  /\ SettingsInit
  /\ StoreInit
  /\ RetrieverIdle
  /\ ExecutorInit
  /\ ToolsIdle

SpecExecutor == InitExecutor /\ [][execute]_vars

\* a step of the for loop of _handle_tool_calls
DispatchStep ==
  \/ \E a \in ArgShapes : DispatchRaises(a)
  \/ \E a \in ArgShapes : DispatchUnknown(a)
  \/ \E a \in ArgShapes, h \in HandlerOutcomes, d \in EnvOutcomes :
       DispatchSubmitResult(a, h, d)
  \/ \E a \in ArgShapes, d \in EnvOutcomes, ix \in EnvOutcomes :
       DispatchSubmitObservation(a, d, ix)
  \/ \E a \in ArgShapes : DispatchSendMessage(a)
  \/ \E a \in ArgShapes, h \in InternalOutcomes : DispatchInternal(a, h)

\* a model call returns
ModelStep ==
  \/ \E c \in TextContents, r \in RetrievalFaults, u \in ReportedUsages :
       CallLLMText(c, r, u)
  \/ \E names \in BatchNames, r \in RetrievalFaults, u \in ReportedUsages :
       CallLLMTools(names, r, u)

\* the agent loop as it runs: the for loop goes on to the end of the batch
\* and a model call that was made returns
SpecLive == Init /\ [][Next]_vars /\ WF_vars(DispatchStep) /\ WF_vars(ModelStep)

\* /output <mode> typed at the prompt between questions
OutputCommand ==
  \E arg \in OutputArgs :
    AtPrompt /\ handle_output(arg) /\ UNCHANGED settingsFrame

\* the agent loop under every output mode
NextModes == AgentLoop \/ OutputCommand

SpecModes == Init /\ [][NextModes]_vars

\* the models typed after /model when sessions are saved and loaded: two
\* with different context limits, and one that is not available
CommandModels == {"gpt-4o", "gpt-4", "gpt-5"}

\* the /model and /session commands typed at the prompt
NextCommands ==
  \/ \E arg \in CommandModels :
       AtPrompt /\ handle_model(arg) /\ UNCHANGED settingsFrame
  \/ \E at \in CreationTimes : start_session(at)
  \/ \E n \in SaveNames : save_session(n)
  \/ \E i \in Identifiers : load_session(i)

SpecCommands == Init /\ [][NextCommands]_vars

\* the batch of the runs in which tokens are counted: one internal tool
TokenBatches == {<<"run_sql">>}

\* model calls that report their usage or do not, between the commands
\* that clear, replace, save and load the session
NextTokens ==
  \/ \E q \in Questions : process_question(q)
  \/ \E u \in Usages : CallLLMText("reasoning", "none", u)
  \/ \E names \in TokenBatches, u \in Usages : CallLLMTools(names, "none", u)
  \/ DispatchInternal("ok", "returned")
  \/ clear_history
  \/ \E at \in CreationTimes : start_session(at)
  \/ saves < MaxLoopSaves /\ save_session(<<>>)
  \/ \E i \in Identifiers : load_session(i)

SpecTokens == Init /\ [][NextTokens]_vars

\* the session manager under its commands
SpecSessions == Init /\ [][NextSessions]_vars

\* the context file under the tools that read and update it
InitContext ==
  /\ OrchestratorInit
  /\ SettingsInit
  /\ StoreInit
  /\ RetrieverIdle
  /\ ExecutorIdle
  /\ warehouse = [rows |-> FixtureRows, intact |-> TRUE]
  /\ call = NoCall
  /\ returned = <<>>
  /\ notes \in ContextFiles

SpecContext == InitContext /\ [][NextContext]_vars

\* the tools that reach the warehouse, called in any order
SpecTools == Init /\ [][NextTools]_vars

(* ------------------------------ properties ---------------------------- *)
\* the conversation history the Orchestrator sees
History == get_history(current_session)

\* the positions of the tool-result messages carrying a tool-call id
ResultsFor(h, id) ==
  {i \in DOMAIN h : h[i].role = "tool" /\ h[i].tool_call_id = id}

\* the answers handed to display_submit_result / display_observation
Answers == {i \in DOMAIN displayed : displayed[i].kind \in TerminalTools}

\* the tool call of that id and name was requested by an assistant message
Requested(h, id, name) ==
  \E p \in DOMAIN h :
    /\ h[p].role = "assistant"
    /\ \E j \in DOMAIN h[p].tool_calls :
         h[p].tool_calls[j] = [id |-> id, name |-> name]

\* C1: whatever is handed to the display as an answer is the output object
\* that the submit_result / submit_observation handler returned in that same
\* dispatch, for a tool call the model requested; a text-only response
\* shows up as a reasoning trace only, never as an answer.
C1_AnswerIsHandlerOutput ==
  \A i \in DOMAIN displayed :
    LET e == displayed[i] IN
      /\ e.kind \in TerminalTools \cup {"thinking"}
      /\ e.kind = "thinking" => e.output = <<>>
      /\ e.kind \in TerminalTools =>
           /\ e.output # <<>>
           /\ e.output[1].tool = e.kind
           /\ e.output[1].call = e.call
           /\ Requested(History, e.call, e.kind)

\* an answer was displayed after an earlier terminal call of the same batch
\* had left its output behind (its display raised)
C1_Witness ==
  /\ pc = "done"
  /\ Len(displayed) = 2
  /\ displayed[1].kind \in TerminalTools /\ ~displayed[1].delivered
  /\ displayed[2].kind \in TerminalTools /\ displayed[2].delivered
  /\ displayed[2].kind # displayed[1].kind

\* the tool call whose dispatch ended the current question (0: none did)
EndedBy ==
  IF pc \in {"done", "raised"} /\ response # <<>> /\ response[1].tool_calls # <<>>
    THEN last.call ELSE 0

\* C2: when submit_result executes and returns a failure (success=False),
\* the error is the tool-result message of that call and process_question
\* stays in the loop, so that a further model call follows.
C2_FailureFedBack ==
  (last.name = "submit_result" /\ last.ret = "failure" /\ last.failed_at = "none")
    => /\ EndedBy # last.call
       /\ \A i \in ResultsFor(History, last.call) : History[i].content \in ErrorTexts

\* C3: a failure at any step of the dispatch of one tool call (parsing,
\* summarising, handler, display) becomes a tool-result error message for
\* that call and the loop goes on; it never leaves process_question.
C3_DispatchFailureContained ==
  last.failed_at # "none"
    => /\ pc # "raised"
       /\ EndedBy # last.call
       /\ \E i \in ResultsFor(History, last.call) : History[i].content \in ErrorTexts

\* the calls of the current batch whose dispatch has ended
Dispatched ==
  {batch[j].id : j \in {k \in DOMAIN batch :
                          k < idx \/ (k = idx /\ pc \in {"done", "raised"})}}

\* C4: every tool call whose dispatch has ended has exactly one tool-result
\* message with its tool_call_id in the history, whichever branch handled it.
C4_ExactlyOneResult ==
  \A id \in Dispatched : Cardinality(ResultsFor(History, id)) = 1

\* the confirmation the two terminal branches append
Confirmation(name) ==
  IF name = "submit_result" THEN ResultDisplayedText ELSE ObservationDisplayedText

\* the answers the display showed to the end
Delivered == {i \in Answers : displayed[i].delivered}

C6_UnknownToolRecovers ==
  (last.call # 0 /\ last.name \notin TOOL_HANDLERS)
    => /\ EndedBy # last.call
       /\ \E i \in ResultsFor(History, last.call) : History[i].content = UnknownToolText

\* C7: after a model response without tool calls, the history is the message
\* list of that call plus one assistant message carrying the text, and
\* process_question has ended: nothing was dispatched for that response and
\* no further model call was made.
C7_TextOnlyEnds ==
  (response # <<>> /\ response[1].tool_calls = <<>>)
    => /\ pc = "done"
       /\ History = Append(sent, AssistantMsg(response[1].content, <<>>))

\* a text-only response ended a question after a round of tool calls
C7_Witness ==
  /\ response # <<>> /\ response[1].tool_calls = <<>>
  /\ pc = "done"
  /\ round = 2

\* C8: the question is appended to the history before the first model call:
\* the message list of that call ends with it, and it is still in the
\* history when process_question returns.
C8_QuestionInHistory ==
  /\ (pc = "awaiting_model" /\ round = 0)
       => /\ History # <<>>
          /\ History[Len(History)] = UserMsg(current_question)
  /\ (round = 1 /\ pc # "idle")
       => /\ sent # <<>>
          /\ sent[Len(sent)] = UserMsg(current_question)
  /\ pc = "done"
       => \E i \in DOMAIN History : History[i] = UserMsg(current_question)

\* the tool-result messages that directly follow position p of h
RunAfter(h, p) ==
  LET stop == {i \in (p + 1)..Len(h) : h[i].role # "tool"}
      end == IF stop = {} THEN Len(h)
             ELSE (CHOOSE i \in stop : \A k \in stop : i <= k) - 1
  IN [j \in 1..(end - p) |-> h[p + j]]

\* the results that follow the batch at p answer its calls in their order
InOrder(h, p) ==
  LET run == RunAfter(h, p) IN
    /\ Len(run) <= Len(h[p].tool_calls)
    /\ \A j \in DOMAIN run : run[j].tool_call_id = h[p].tool_calls[j].id

\* every call of the batch at p has its result
Complete(h, p) == Len(RunAfter(h, p)) = Len(h[p].tool_calls)

BatchPositions(h) ==
  {p \in DOMAIN h : h[p].role = "assistant" /\ h[p].tool_calls # <<>>}

\* C9: the assistant message with the tool-call requests precedes all of
\* their tool-result messages, the results follow it in the order of the
\* requests, one per dispatched call, and a further model call of the
\* question is made only when the whole batch has been dispatched.
C9_BatchOrder ==
  /\ \A p \in BatchPositions(History) : InOrder(History, p)
  /\ \A i \in DOMAIN History :
       History[i].role = "tool" => i > 1 /\ History[i - 1].role # "user"
  /\ \A i \in DOMAIN History :
       (i > 1 /\ History[i].role = "tool" /\ History[i - 1].role = "assistant")
         => History[i - 1].tool_calls # <<>>
  /\ \A p \in BatchPositions(History) :
       (\E i \in DOMAIN History : i > p /\ History[i].role = "assistant"
           /\ \A k \in (p + 1)..(i - 1) : History[k].role = "tool")
         => Complete(History, p)
  /\ \A p \in BatchPositions(sent) :
       (\A k \in (p + 1)..Len(sent) : sent[k].role = "tool") => Complete(sent, p)
  /\ pc = "dispatching"
       => /\ BatchPositions(History) # {}
          /\ LET p == CHOOSE q \in BatchPositions(History) :
                        \A r \in BatchPositions(History) : r <= q
             IN /\ History[p].tool_calls = batch
                /\ Len(RunAfter(History, p)) = idx - 1
                /\ p + idx - 1 = Len(History)

\* a batch of two calls was dispatched in full and a further model call made
C9_Witness ==
  /\ round = 2
  /\ \E p \in BatchPositions(sent) :
       /\ Len(sent[p].tool_calls) = 2
       /\ Complete(sent, p)
       /\ p + 2 = Len(sent)

Range(seq) == {seq[i] : i \in DOMAIN seq}

\* C11: the tool list of a model call follows the output mode of the call:
\* automatic has both terminal tools, observation only submit_observation,
\* query only submit_result; every other tool is in the list in every mode.
C11_ToolsFollowMode ==
  tools # <<>> =>
    LET names == Range(tools[1].names)
        mode == tools[1].mode
    IN /\ ("submit_result" \in names) <=> (mode \in {"auto", "query"})
       /\ ("submit_observation" \in names) <=> (mode \in {"auto", "observation"})
       /\ {"run_sql", "run_python", "inspect_schema", "inspect_platform",
           "read_context", "update_context", "send_message"} \subseteq names
       /\ names \subseteq Range(TOOLS)

\* the tool list of a call in observation mode, after the mode was changed
C11_Witness ==
  /\ tools # <<>>
  /\ tools[1].mode = "observation"
  /\ "submit_result" \notin Range(tools[1].names)
  /\ settings.output_mode = "query"

\* C12: every section format_for_prompt builds is at most its budget times
\* CHARS_PER_TOKEN characters long.
C12_SectionsWithinBudget ==
  formatted # <<>> =>
    \A c \in CollectionKeys :
      formatted[1][c].chars <= TOKEN_BUDGET[c] * CHARS_PER_TOKEN

\* one sequence is a prefix of another
IsPrefix(a, b) ==
  /\ Len(a) <= Len(b)
  /\ \A i \in DOMAIN a : a[i] = b[i]

\* C13: for the items of every collection and budgets B1 <= B2, what
\* _apply_token_budget keeps under B1 is a prefix of what it keeps under
\* B2: a smaller budget never keeps more items.
C13_BudgetMonotone ==
  \A c \in CollectionKeys :
    \A b1 \in Budgets \cup {budget}, b2 \in Budgets \cup {budget} :
      b1 <= b2 =>
        LET items == ItemsOf(retrieved, c) IN
          /\ IsPrefix(ApplyTokenBudget(items, b1), ApplyTokenBudget(items, b2))
          /\ Len(ApplyTokenBudget(items, b1)) <= Len(ApplyTokenBudget(items, b2))

\* the budget was applied, it kept part of the items, and a budget under
\* it keeps less
C13_Witness ==
  /\ filtered # <<>>
  /\ LET items == ItemsOf(retrieved, filtered[1].collection) IN
       /\ Len(filtered[1].items) = 1
       /\ Len(items) = 2
       /\ \E b1 \in Budgets : b1 < budget /\ ApplyTokenBudget(items, b1) = <<>>
       /\ \E b2 \in Budgets : b2 > budget /\ ApplyTokenBudget(items, b2) = items

RECURSIVE SumText(_, _)
\* the summed text length of the first n items
SumText(items, n) ==
  IF n = 0 THEN 0 ELSE TextLen(items[n]) + SumText(items, n - 1)

\* kept is the longest prefix of items whose texts sum to at most max_chars
LongestPrefix(kept, items, max_chars) ==
  /\ IsPrefix(kept, items)
  /\ SumText(items, Len(kept)) <= max_chars
  /\ Len(kept) < Len(items) => SumText(items, Len(kept) + 1) > max_chars

\* C14: _apply_token_budget returns the longest prefix of its input whose
\* summed text length is at most budget * 4: whole items in input order,
\* nothing after the first item that does not fit.
C14_LongestPrefix ==
  /\ \A c \in CollectionKeys, b \in Budgets :
       LongestPrefix(ApplyTokenBudget(ItemsOf(retrieved, c), b),
                     ItemsOf(retrieved, c), b * CHARS_PER_TOKEN)
  /\ filtered # <<>> =>
       LongestPrefix(filtered[1].items, ItemsOf(retrieved, filtered[1].collection),
                     budget * CHARS_PER_TOKEN)

\* the first item did not fit and nothing was kept, though the second
\* item alone is within the budget
C14_Witness ==
  /\ filtered # <<>>
  /\ filtered[1].items = <<>>
  /\ LET items == ItemsOf(retrieved, filtered[1].collection) IN
       /\ Len(items) = 2
       /\ TextLen(items[1]) > budget * CHARS_PER_TOKEN
       /\ TextLen(items[2]) <= budget * CHARS_PER_TOKEN

\* C15: a model call made while the three collections are empty has
\* retrieved nothing without calling the embedder or searching, and its
\* prompt has no "Retrieved Context" section.
C15_EmptyMemoryNoContext ==
  (rag.made /\ rag.failed = "none" /\ StatsSum(memory) = 0)
    => /\ rag.items = 0
       /\ ~rag.embedded
       /\ ~rag.searched
       /\ ~rag.context

\* a model call was made with nothing indexed
C15_Witness ==
  /\ rag.made /\ rag.failed = "none"
  /\ StatsSum(memory) = 0
  /\ round = 1 /\ response # <<>>

\* C16: when submit_result has succeeded for a question and its answer was
\* displayed, the past-queries collection holds an item for it.
C16_SuccessfulQueryIndexed ==
  (pc = "done" /\ last.name = "submit_result" /\ last.ret = "success"
     /\ last.failed_at = "none")
    => memory.queries > 0

\* C17: a retrieval that raises leaves the model call made, with a prompt
\* without retrieved context; an indexing that raises comes after the
\* answer was displayed and confirmed, and the question ends as it would
\* have.
C17_MemoryFailuresContained ==
  /\ rag.failed # "none"
       => /\ ~rag.context
          /\ round >= 1 /\ response # <<>>
  /\ last.indexing = "raised"
       => /\ pc = "done"
          /\ displayed # <<>>
          /\ displayed[Len(displayed)].call = last.call
          /\ displayed[Len(displayed)].delivered
          /\ History # <<>>
          /\ History[Len(History)] = ToolMsg(last.call, Confirmation(last.name))

\* the embedder failed in the retrieval of a call whose answer was then
\* displayed, and the indexing of that answer failed too
C17_Witness ==
  /\ rag.failed = "embedder"
  /\ last.indexing = "raised"
  /\ last.name = "submit_observation"
  /\ pc = "done"

\* the ids of the items of a collection
IdsOf(coll) == {i.id : i \in coll}

\* C18: the schema collection holds one item per table key and one per
\* column key, however often a table or a column was indexed: an index
\* call on a key that is there replaces the item and leaves the count.
C18_OneItemPerSchemaKey ==
  /\ Cardinality(collections.schema) = Cardinality(IdsOf(collections.schema))
  /\ Cardinality(collections.schema) <= indexed.schema
  /\ IdsOf(collections.schema) \subseteq
       {TableId(t) : t \in DbTables}
         \cup {ColumnId(t, c) : t \in DbTables, c \in ColumnNames}

\* the same table was indexed twice, at different times: one item, the later
C18_Witness ==
  /\ indexed.schema = 2
  /\ Cardinality(collections.schema) = 1
  /\ \E i \in collections.schema :
       i.id = TableId("m.a") /\ i.metadata.indexed_at = 2

\* C19: every index_query and index_observation call that completed added
\* an item of its own: the collection holds as many items as calls made.
C19_AppendOnly ==
  /\ Cardinality(collections.queries) = indexed.queries
  /\ Cardinality(collections.observations) = indexed.observations

\* C20: code that runs to its end without binding result gets the error
\* "must define a 'result' variable", whatever the inputs are called.
C20_MissingResultReported ==
  (/\ executed # <<>>
   /\ ~code.raises /\ ~Blocked(code, dataframes)
   /\ "result" \notin code.binds)
    => executed[1].error = "must define a 'result' variable"

\* C21: code that attempts an import or a filesystem access gets a contained
\* error naming the exception kind, and the access does not happen.
C21_AccessRefused ==
  (executed # <<>> /\ code.attempts # "none")
    => /\ executed[1].result = "none"
       /\ executed[1].error \in {"ImportError", "NameError", "AttributeError"}
       /\ ~executed[1].accessed

\* C22: a successful submit_result ran every input, in the order given, and
\* returns the value its function bound to result: the sum of the column of
\* the input the function reads.
C22_ResultIsFunctionValue ==
  (/\ call # NoCall /\ call[1].tool = "submit_result"
   /\ returned[1].success)
    => /\ returned[1].ran = Len(call[1].inputs)
       /\ call[1].function.reads \in {call[1].inputs[i].name :
                                        i \in 1..Len(call[1].inputs)}
       /\ returned[1].result =
            [kind |-> "number", value |-> <<SumRows(FixtureRows, 1)>>]

\* C24: no sequence of tool calls changes the warehouse.
C24_WarehouseUnchanged ==
  warehouse = [rows |-> FixtureRows, intact |-> TRUE]

\* the texts of a tool-result that report an error
ErrorResults ==
  {"Error: TypeError", "ERROR: Unknown action",
   "ERROR: 'schema' and 'table' are required for get_columns",
   "ERROR: 'schema' and 'table' are required for get_sample"}

\* C23: a tool call whose arguments fail the declared schema gets an error
\* as its tool-result and nothing is raised out of process_question;
\* get_columns without a table is refused without a query of the warehouse.
C23_BadArgumentsReported ==
  (/\ call # NoCall /\ call[1].tool = "tool_call"
   /\ FailsSchema(call[1].name, call[1].args))
    => /\ ~returned[1].raised
       /\ returned[1].tool_result \in ErrorResults
       /\ (/\ call[1].name = "inspect_schema"
           /\ call[1].args.action = "get_columns"
           /\ call[1].args.table = ""
           /\ Given(call[1].args) \subseteq DeclaredKeys("inspect_schema"))
            => /\ returned[1].tool_result =
                    "ERROR: 'schema' and 'table' are required for get_columns"
               /\ ~returned[1].queried

\* C25: the names of TOOLS are pairwise distinct and are the keys of
\* TOOL_HANDLERS, and every tool call dispatched either has a registered
\* name or has the "Unknown tool" message as a tool-result.
C25_ToolsResolve ==
  /\ \A i, j \in 1..Len(TOOLS) : TOOLS[i] = TOOLS[j] => i = j
  /\ Range(TOOLS) = TOOL_HANDLERS
  /\ last.call # 0 =>
       \/ last.name \in TOOL_HANDLERS
       \/ \E i \in ResultsFor(History, last.call) :
            History[i].content = UnknownToolText

\* the session a file holds, as load_session hands it over
Loaded(f) == [FromDict(f.data) EXCEPT !.status = "active"]

\* C26: a session that was saved and is then loaded by its id is restored
\* with the id, name, model, creation time, token usage, context limit,
\* conversation history and message count it had at the save, and with
\* status "active".
C26_SaveLoadRestores ==
  (/\ cmd.op = "load"
   /\ cmd.snapshot # <<>>
   /\ cmd.ident = IdText(cmd.snapshot[1].id))
  => /\ current_session # <<>>
     /\ LET s == current_session[1]
            t == cmd.snapshot[1] IN
        /\ s.id = t.id
        /\ s.name = t.name
        /\ s.model = t.model
        /\ s.created_at = t.created_at
        /\ s.token_usage = t.token_usage
        /\ s.context_limit = t.context_limit
        /\ s.conversation_history = t.conversation_history
        /\ s.message_count = t.message_count
        /\ s.status = "active"

\* a named session with a message and counted tokens was saved and then
\* loaded by its id
C26_Witness ==
  /\ cmd.op = "load"
  /\ cmd.snapshot # <<>>
  /\ cmd.ident = IdText(cmd.snapshot[1].id)
  /\ cmd.snapshot[1].name # <<>>
  /\ cmd.snapshot[1].conversation_history # <<>>
  /\ cmd.snapshot[1].token_usage.total_tokens > 0
  /\ cmd.snapshot[1].status = "paused"

\* the files load_session chooses from: those whose name begins with the
\* identifier, or, when there is none, those whose name part contains it
ChosenFiles == MatchingFiles(sessions_dir, cmd.ident)

\* every file that matches the identifier by id or by name
AllMatching == GlobById(sessions_dir, cmd.ident) \cup
               GlobByName(sessions_dir, cmd.ident)

C28_OneRecordPerId ==
  \A f, g \in sessions_dir : f.data.id = g.data.id => f = g

\* the lines of a file at which the section of that header starts
HeaderAt(lines, header) ==
  {i \in 1..Len(lines) : SectionLine(lines[i]) /\ Strip(lines[i]) = header}

\* the line at which the section that starts at line i ends
SectionEnd(lines, i) ==
  LET later == {j \in (i + 1)..Len(lines) : SectionLine(lines[j])} IN
  IF later = {} THEN Len(lines)
  ELSE (CHOOSE j \in later : \A k \in later : j <= k) - 1

\* the body of the section that starts at line i
BodyAt(lines, i) == SubSeq(lines, i + 1, SectionEnd(lines, i))

\* the lines from line i on that are in no section of that header
RECURSIVE OutsideFrom(_, _, _)
OutsideFrom(lines, header, i) ==
  IF i > Len(lines) THEN <<>>
  ELSE IF \E k \in HeaderAt(lines, header) :
            k <= i /\ i <= SectionEnd(lines, k)
    THEN OutsideFrom(lines, header, i + 1)
  ELSE <<lines[i]>> \o OutsideFrom(lines, header, i + 1)

\* update_context was the latest call
UpdateCalled == call # NoCall /\ call[1].tool = "update_context"

\* C29: after tool_update_context with a valid section name the file has
\* the section's header once per prior occurrence with the content as its
\* whole body, or the header and the content appended at the end when the
\* header was absent, and the same update applied again leaves the file
\* unchanged.
C29_SectionReplacedIdempotent ==
  (UpdateCalled /\ call[1].section \in DOMAIN section_map)
  => LET header == section_map[call[1].section]
         old == ContextLines(call[1].before)
         content == call[1].content IN
     /\ IF HeaderAt(old, header) # {}
          THEN /\ Cardinality(HeaderAt(notes, header)) =
                    Cardinality(HeaderAt(old, header))
               /\ \A i \in HeaderAt(notes, header) :
                    BodyAt(notes, i) = content
          ELSE \E sep \in {<<>>, <<"">>} :
                 notes = old \o sep \o <<header>> \o content
     /\ UpdateContext(notes, call[1].section, content).file = notes

\* C30: tool_update_context changes only the named section: the lines
\* outside it are the same, in their order, after the update as before (a
\* section appended at the end comes after a blank line), and an unknown
\* section name leaves the file untouched and returns 'Unknown section'.
C30_OnlyNamedSectionChanges ==
  UpdateCalled
  => IF call[1].section \notin DOMAIN section_map
       THEN /\ notes = call[1].before
            /\ returned = <<<<"Unknown section: ", call[1].section>>>>
     ELSE LET header == section_map[call[1].section]
              old == OutsideFrom(ContextLines(call[1].before), header, 1) IN
          OutsideFrom(notes, header, 1) \in {old, old \o <<"">>}

\* C31: when process_question returns, every tool-call id listed in an
\* assistant message of the history has a tool-result message after it,
\* the calls after a terminal tool call in the same batch included.
C31_EveryCallAnswered ==
  pc = "done"
  => \A i \in DOMAIN History :
       \A k \in DOMAIN History[i].tool_calls :
         \E j \in ResultsFor(History, History[i].tool_calls[k].id) : j > i

\* C32: a terminal tool that is not in the tool list of the model call of
\* the turn is never executed or displayed.
C32_DispatchRespectsMode ==
  tools # <<>>
  => /\ \A i \in Answers : displayed[i].kind \in Range(tools[1].names)
     /\ (last.name \in TerminalTools /\ last.ret # "none")
          => last.name \in Range(tools[1].names)

\* C33: process_question ends only through a text-only response or a
\* terminal tool call; a batch without a successful terminal call gets one
\* tool-result per call ('Message sent.' for send_message) and is followed
\* by another model call.
C33_EndsOnlyByTextOrTerminal ==
  /\ pc \in {"done", "raised"}
       => /\ response # <<>>
          /\ \/ response[1].tool_calls = <<>>
             \/ /\ last.call # 0
                /\ last.name \in TerminalTools
                /\ last.failed_at = "none"
  /\ (pc = "awaiting_model" /\ batch # <<>>)
       => \A k \in DOMAIN batch :
            /\ Cardinality(ResultsFor(History, batch[k].id)) = 1
            /\ batch[k].name = "send_message"
                 => \A i \in ResultsFor(History, batch[k].id) :
                      History[i].content \in {MessageSentText} \cup ErrorTexts

\* C34: process_question reaches DONE in every run in which the model
\* returns a text-only response or a terminal tool call.
C34_ReachesDone ==
  [](( /\ round >= 1
       /\ response # <<>>
       /\ \/ response[1].tool_calls = <<>>
          \/ \E k \in DOMAIN response[1].tool_calls :
               response[1].tool_calls[k].name \in TerminalTools )
     => <>(pc = "done"))

\* the user messages of a history
UserMessages(h) == {i \in DOMAIN h : h[i].role = "user"}

\* C35: in every reachable state message_count is the number of user
\* messages in the session's conversation history, in the current session
\* and in every record save_session wrote.
C35_MessageCountIsUserMessages ==
  /\ current_session # <<>>
       => current_session[1].message_count =
            Cardinality(UserMessages(current_session[1].conversation_history))
  /\ \A f \in sessions_dir :
       f.data.message_count =
         Cardinality(UserMessages(f.data.conversation_history))

\* C36: a session attached to the session manager as the current session
\* has status active; paused occurs only in the records written to disk.
C36_AttachedIsActive ==
  /\ current_session # <<>> => current_session[1].status = "active"
  /\ \A f \in sessions_dir : f.data.status = "paused"

\* C37: after any sequence of /model, /session new and /session load the
\* model of the model calls, settings.model, is the current session's
\* model, and the session's context limit is the limit of that model.
C37_SessionModelIsSettingsModel ==
  current_session # <<>>
  => /\ current_session[1].model = settings.model
     /\ current_session[1].context_limit =
          MODEL_CONTEXT_LIMITS[settings.model]

\* the token counters of the current session
Tokens == current_session[1].token_usage

\* the step is within one session: the session before and after it has
\* the same id
SameSession ==
  /\ current_session # <<>>
  /\ current_session' # <<>>
  /\ current_session'[1].id = current_session[1].id

\* the step leaves the session in place: no /session new and no /session
\* load puts another session, or an earlier record of it, in its place
SessionGoesOn == SameSession /\ cmd'.op # "load"

\* total_tokens is the sum of the other two counters after the step
TotalIsSum ==
  current_session' # <<>>
  => Tokens'.total_tokens = Tokens'.prompt_tokens + Tokens'.completion_tokens

\* no counter is lower after the step than before
NoCounterDecreases ==
  /\ Tokens'.prompt_tokens >= Tokens.prompt_tokens
  /\ Tokens'.completion_tokens >= Tokens.completion_tokens
  /\ Tokens'.total_tokens >= Tokens.total_tokens

\* a model call that reports usage adds exactly its counts
UsageAdded ==
  (current_session # <<>> /\ round' = round + 1 /\ response'[1].usage # <<>>)
  => LET usage == response'[1].usage[1] IN
     /\ Tokens'.prompt_tokens = Tokens.prompt_tokens + usage.prompt_tokens
     /\ Tokens'.completion_tokens =
          Tokens.completion_tokens + usage.completion_tokens
     /\ Tokens'.total_tokens =
          Tokens.total_tokens + usage.prompt_tokens + usage.completion_tokens

\* C38 as stated: total_tokens is prompt_tokens plus completion_tokens, no
\* counter ever decreases within a session, and a model call that reports
\* usage adds exactly its prompt and completion counts.
C38_Original ==
  [][TotalIsSum /\ (SameSession => NoCounterDecreases) /\ UsageAdded]_vars

\* C38: from a new session on, total_tokens is prompt_tokens plus
\* completion_tokens; no counter decreases while the session stays in
\* place, clear_history included (a /session load puts the counters of the
\* loaded record in their place); a model call that reports usage adds
\* exactly its prompt and completion counts.
C38_TokenCounters ==
  [][TotalIsSum /\ (SessionGoesOn => NoCounterDecreases) /\ UsageAdded]_vars

\* model calls have reported usage in a session whose history was cleared
\* afterwards
C38_Witness ==
  /\ current_session # <<>>
  /\ current_session[1].conversation_history = <<>>
  /\ Tokens.total_tokens > 0
  /\ cmd.op = "none"
  /\ sessions_dir = {}

\* what a schema item is an item of: a table, or a column of a table
SchemaKey(i) ==
  <<i.metadata.type, i.metadata.table_name, i.metadata.column_name>>

\* C39: different tables and different (table, column) pairs get different
\* item ids: an index call never puts an item in the place of an item of
\* another table or column, and index_schema_from_db on an empty store
\* leaves one item per table and one per column of the warehouse.
C39_DistinctSchemaIds ==
  [][ /\ \A i \in collections.schema : \A j \in collections'.schema :
           j.id = i.id => SchemaKey(j) = SchemaKey(i)
      /\ (/\ collections.schema = {}
          /\ indexed'.schema = indexed.schema + SchemaAdds(DbTables))
           => Cardinality(collections'.schema) = SchemaAdds(DbTables)
    ]_vars

\* C40: format_for_prompt emits a section header only when at least one
\* item is rendered under it, and the "Retrieved Context" block only when
\* some section has a rendered item: a collection whose items are all
\* dropped by the budget or render to nothing leaves no section.
C40_HeaderOnlyWithItems ==
  formatted # <<>> =>
    /\ \A c \in CollectionKeys :
         formatted[1][c].chars > 0 => formatted[1][c].rendered > 0
    /\ formatted[1].block =>
         \E c \in CollectionKeys : formatted[1][c].rendered > 0

====
